---- MODULE Spec2Model ----
(***************************************************************************)
(* Model of scripts/524-segment-transcripts-by-topic.py: sentence          *)
(* extraction, short-sentence merging, the embedding gateway (S3 Vectors   *)
(* cache + Bedrock provider), the two boundary detectors, the paragraph    *)
(* builder and main()'s run with its storage writes.                       *)
(*                                                                         *)
(* Conventions.                                                            *)
(*  - A text (Python str) is a sequence of one-character strings.          *)
(*  - Times are integers counted in half seconds (1.5 s = 3 ticks).        *)
(*  - A vector of floats is a record [v |-> <<integers>>, d |-> n] that    *)
(*    stands for the real vector v/d; a raw embedding has d = 1.           *)
(*  - A similarity is a binary float [m, e] (m * 2^e) of FloatBits bits,   *)
(*    computed operation by operation with round to nearest even; each     *)
(*    vector entry v[i]/d is rounded to a float before it is used.         *)
(*  - Python's 0-based indices are kept as the code's values; sequences    *)
(*    are 1-based, so Python's xs[i] is xs[i + 1] here.                    *)
(***************************************************************************)
EXTENDS Integers, Sequences, FiniteSets, TLC

VARIABLES
    pc,              \* position in main() / in the function under study
    args,            \* parsed command line (main, lines 1089-1122)
    processed_data,  \* the input transcript: a sequence of paragraphs
    all_words,       \* flattened word stream (extract_sentences_from_transcript)
    pause_threshold, \* parameter of group_words_into_sentences
    min_words,       \* parameter of merge_short_sentences
    grouped,         \* the sentences handed to merge_short_sentences
    sentences,       \* the sentences after merging (main's `sentences`)
    embeddings,      \* get_embeddings_for_segments' result list so far
    embedding,       \* get_embeddings_for_segments' local `embedding`
    cache_available, \* get_embeddings_for_segments' local
    cache_hits,      \* get_embeddings_for_segments' counter
    cache_misses,    \* get_embeddings_for_segments' counter
    s3vectors_client,\* the module global _s3vectors_client
    cache,           \* contents of the S3 Vectors index: key -> record
    calls,           \* history of the external calls of this run
    threshold,       \* similarity threshold handed to the detector
    window_size,     \* window size handed to the windowed detector
    boundaries,      \* detector result
    similarities,    \* detector result
    adjacent,        \* result of detect_topic_boundaries on the same input
    output_data,     \* format_transcript_with_sentence_topics' result
    s3,              \* the bucket: object name -> content or NoObject
    local_file,      \* the local output file: content or NoObject
    source,          \* the stored input transcript, or NoObject when missing
    exit_status,     \* "running", 0 (success) or 1 (failure)
    error,           \* the exception that ended the run and the call that raised it
    run              \* number of the current run of the script

vars == <<pc, args, processed_data, all_words, pause_threshold, min_words,
          grouped, sentences, embeddings, embedding, cache_available,
          cache_hits, cache_misses, s3vectors_client, cache, calls,
          threshold, window_size, boundaries, similarities, adjacent,
          output_data, s3, local_file, source, exit_status, error, run>>

-----------------------------------------------------------------------------
(* Bounds of the model *)

MaxWords == 4      \* longest word stream explored exhaustively
MaxTextLen == 4    \* longest paragraph text explored in the fallback split
MaxSents == 3      \* longest sentence / embedding sequence explored
MaxBounds == 2     \* longest arbitrary boundary list handed to the builder
MaxLongSents == 6  \* longest sentence sequence (of one kind) handed to the builder
MaxRuns == 2       \* runs of the script over the same stores
MaxMerged == 3     \* longest sentence list handed to the merge on its own
FloatBits == 13    \* significant bits of a float (53 in the program's doubles)

(* Program constants, in the model's units *)

EMBEDDING_DIMS == 2            \* EMBEDDING_DIMENSIONS (configured value)
DEFAULT_PAUSE_THRESHOLD == 3   \* 1.5 s in half seconds
DEFAULT_MIN_WORDS == 5         \* min_sentence_words default
MAIN_WINDOW_SIZE == 3          \* main's window_size
TOPIC_THRESHOLD == [n |-> 1, d |-> 5]   \* the default 0.20

None == [none |-> TRUE]            \* Python's None where a record is expected
NoObject == [exists |-> FALSE]     \* an object or file that does not exist

-----------------------------------------------------------------------------
(* Generic helpers *)

Min(a, b) == IF a < b THEN a ELSE b
Max(a, b) == IF a > b THEN a ELSE b
Abs(a) == IF a < 0 THEN -a ELSE a

Sign(a) == IF a < 0 THEN -1 ELSE IF a > 0 THEN 1 ELSE 0

RECURSIVE Pow2(_)
Pow2(k) == IF k <= 0 THEN 1 ELSE 2 * Pow2(k - 1)

RECURSIVE SeqsUpTo(_, _)
\* all sequences over S of length at most n
SeqsUpTo(S, n) ==
    IF n = 0 THEN {<<>>}
    ELSE LET shorter == SeqsUpTo(S, n - 1)
         IN shorter \cup {Append(s, x) : s \in {t \in shorter : Len(t) = n - 1}, x \in S}

RECURSIVE Flatten(_)
\* concatenation of a sequence of sequences
Flatten(ss) == IF Len(ss) = 0 THEN <<>> ELSE Head(ss) \o Flatten(Tail(ss))

-----------------------------------------------------------------------------
(* Text: str operations used by the script *)

Whitespace == {" ", "\n"}
SentenceTerminal == {".", "!", "?"}
Space == <<" ">>

RECURSIVE Join(_, _)
\* sep.join(parts)
Join(parts, sep) ==
    IF Len(parts) = 0 THEN <<>>
    ELSE IF Len(parts) = 1 THEN parts[1]
    ELSE parts[1] \o sep \o Join(Tail(parts), sep)

\* `not segment or not segment.strip()`
IsBlank(text) == \A i \in 1..Len(text) : text[i] \in Whitespace

\* text.strip()
Strip(text) ==
    IF IsBlank(text) THEN <<>>
    ELSE LET first == CHOOSE i \in 1..Len(text) :
                          /\ text[i] \notin Whitespace
                          /\ \A j \in 1..(i - 1) : text[j] \in Whitespace
             last == CHOOSE i \in 1..Len(text) :
                          /\ text[i] \notin Whitespace
                          /\ \A j \in (i + 1)..Len(text) : text[j] \in Whitespace
         IN SubSeq(text, first, last)

\* len(text.split()): the number of maximal runs of non-whitespace
SplitCount(text) ==
    Cardinality({i \in 1..Len(text) :
                    /\ text[i] \notin Whitespace
                    /\ (i = 1 \/ text[i - 1] \in Whitespace)})

\* end of the whitespace run that starts at position i
RECURSIVE RunEnd(_, _)
RunEnd(text, i) ==
    IF i < Len(text) /\ text[i + 1] \in Whitespace THEN RunEnd(text, i + 1) ELSE i

RECURSIVE ReSplitLoop(_, _, _, _)
ReSplitLoop(text, i, cur, out) ==
    IF i > Len(text) THEN Append(out, cur)
    ELSE IF /\ text[i] \in Whitespace
            /\ i > 1
            /\ text[i - 1] \in SentenceTerminal
         THEN ReSplitLoop(text, RunEnd(text, i) + 1, <<>>, Append(out, cur))
         ELSE ReSplitLoop(text, i + 1, Append(cur, text[i]), out)

\* re.split(r'(?<=[.!?])\s+', text)
ReSplit(text) == ReSplitLoop(text, 1, <<>>, <<>>)

\* re.search(r'[.!?]$', word): `$` also matches before a final newline
EndsWithTerminal(word) ==
    \/ Len(word) > 0 /\ word[Len(word)] \in SentenceTerminal
    \/ Len(word) > 1 /\ word[Len(word)] = "\n" /\ word[Len(word) - 1] \in SentenceTerminal

-----------------------------------------------------------------------------
(* Sentence extraction (lines 491-666) *)

\* extract_all_words_from_transcript: flatten the paragraphs' word lists
extract_all_words_from_transcript(data) ==
    Flatten([k \in 1..Len(data) |-> data[k].words])

\* the sentence dict built from the buffered words (lines 562-569)
SentenceOfWords(cur) ==
    [text      |-> Join([k \in 1..Len(cur) |-> cur[k].word], Space),
     words     |-> cur,
     start     |-> cur[1].start,
     end       |-> cur[Len(cur)].end,
     wordCount |-> Len(cur)]

\* a plausible slip: the pause test written with >= instead of >
IsSentenceEnd_PauseInclusive(words, i, pause) ==
    \/ EndsWithTerminal(words[i + 1].word)
    \/ /\ i < Len(words) - 1
       /\ words[i + 2].start - words[i + 1].end >= pause
    \/ i = Len(words) - 1

\* a plausible slip: the "last word always ends a sentence" rule left out
IsSentenceEnd_NoLastWordRule(words, i, pause) ==
    \/ EndsWithTerminal(words[i + 1].word)
    \/ /\ i < Len(words) - 1
       /\ words[i + 2].start - words[i + 1].end > pause

\* is_sentence_end for the word at Python index i (lines 543-558)
IsSentenceEnd(words, i, pause) ==
    \/ EndsWithTerminal(words[i + 1].word)
    \/ /\ i < Len(words) - 1
       /\ words[i + 2].start - words[i + 1].end > pause
    \/ i = Len(words) - 1

RECURSIVE GroupLoop(_, _, _, _, _)
\* the for loop of group_words_into_sentences (lines 538-570)
GroupLoop(words, pause, i, current_sentence_words, out) ==
    IF i >= Len(words) THEN out
    ELSE LET cur == Append(current_sentence_words, words[i + 1])
         IN IF IsSentenceEnd(words, i, pause) /\ Len(cur) > 0
            THEN GroupLoop(words, pause, i + 1, <<>>, Append(out, SentenceOfWords(cur)))
            ELSE GroupLoop(words, pause, i + 1, cur, out)

group_words_into_sentences(words, pause) ==
    IF Len(words) = 0 THEN <<>> ELSE GroupLoop(words, pause, 0, <<>>, <<>>)

\* a plausible slip: the short sentence's text and words are not carried over
MergeIntoPrev_Dropped(prev, current) ==
    [prev EXCEPT !.end = current.end]

\* merge `current` into the last accepted sentence (lines 598-602)
MergeIntoPrev(prev, current) ==
    [prev EXCEPT !.text = prev.text \o Space \o current.text,
                 !.words = prev.words \o current.words,
                 !.end = current.end,
                 !.wordCount = Len(prev.words \o current.words)]

\* a plausible slip: wordCount is not recomputed after a forward merge
MergeIntoNext_CountKept(current, next_sent) ==
    [next_sent EXCEPT !.text = current.text \o Space \o next_sent.text,
                      !.words = current.words \o next_sent.words,
                      !.start = current.start]

\* a plausible slip: the start of the next sentence is not moved back
MergeIntoNext_StartKept(current, next_sent) ==
    [next_sent EXCEPT !.text = current.text \o Space \o next_sent.text,
                      !.words = current.words \o next_sent.words,
                      !.wordCount = Len(current.words \o next_sent.words)]

\* merge `current` into the sentence after it (lines 605-609)
MergeIntoNext(current, next_sent) ==
    [next_sent EXCEPT !.text = current.text \o Space \o next_sent.text,
                      !.words = current.words \o next_sent.words,
                      !.start = current.start,
                      !.wordCount = Len(current.words \o next_sent.words)]

RECURSIVE MergeLoop_PrefersNext(_, _, _, _)
\* a plausible slip: the two merge branches exchanged, so that a short
\* sentence goes to the next sentence whenever there is one
MergeLoop_PrefersNext(sents, min_w, i, merged) ==
    IF i >= Len(sents) THEN merged
    ELSE LET current == sents[i + 1]
         IN IF current.wordCount < min_w
            THEN IF i < Len(sents) - 1
                 THEN MergeLoop_PrefersNext(
                          [sents EXCEPT ![i + 2] = MergeIntoNext(current, @)],
                          min_w, i + 1, merged)
                 ELSE IF Len(merged) > 0
                 THEN MergeLoop_PrefersNext(sents, min_w, i + 1,
                          [merged EXCEPT ![Len(merged)] = MergeIntoPrev(@, current)])
                 ELSE MergeLoop_PrefersNext(sents, min_w, i + 1, Append(merged, current))
            ELSE MergeLoop_PrefersNext(sents, min_w, i + 1, Append(merged, current))

RECURSIVE MergeLoop(_, _, _, _)
\* the while loop of merge_short_sentences (lines 591-617); `sents` is the
\* input list, which the loop updates in place when it merges forward
MergeLoop(sents, min_w, i, merged) ==
    IF i >= Len(sents) THEN merged
    ELSE LET current == sents[i + 1]
         IN IF current.wordCount < min_w
            THEN IF Len(merged) > 0
                 THEN MergeLoop(sents, min_w, i + 1,
                          [merged EXCEPT ![Len(merged)] = MergeIntoPrev(@, current)])
                 ELSE IF i < Len(sents) - 1
                 THEN MergeLoop([sents EXCEPT ![i + 2] = MergeIntoNext(current, @)],
                          min_w, i + 1, merged)
                 ELSE MergeLoop(sents, min_w, i + 1, Append(merged, current))
            ELSE MergeLoop(sents, min_w, i + 1, Append(merged, current))

\* a plausible slip: a sentence that is still short at the end is dropped
merge_short_sentences_DropsShort(sents, min_w) ==
    SelectSeq(MergeLoop(sents, min_w, 0, <<>>), LAMBDA s : s.wordCount >= min_w)

\* lines 585-619
merge_short_sentences(sents, min_w) ==
    IF Len(sents) <= 1 THEN sents ELSE MergeLoop(sents, min_w, 0, <<>>)

\* the sentences of one paragraph's text in the fallback (lines 644-657)
FallbackOfParagraph(para) ==
    IF Len(para.text) = 0 THEN <<>>
    ELSE LET parts == ReSplit(para.text)
             kept == SelectSeq(parts, LAMBDA part : Len(Strip(part)) > 0)
         IN [k \in 1..Len(kept) |->
                [text      |-> Strip(kept[k]),
                 words     |-> <<>>,
                 start     |-> para.startTime,
                 end       |-> para.endTime,
                 wordCount |-> SplitCount(kept[k])]]

\* the fallback sentence list when there is no word-level data (lines 641-657)
FallbackSentences(data) ==
    Flatten([k \in 1..Len(data) |-> FallbackOfParagraph(data[k])])

\* the list handed to merge_short_sentences (lines 639-661)
UnmergedSentences(data, pause) ==
    IF Len(extract_all_words_from_transcript(data)) = 0
    THEN FallbackSentences(data)
    ELSE group_words_into_sentences(extract_all_words_from_transcript(data), pause)

extract_sentences_from_transcript(data, pause, min_w) ==
    merge_short_sentences(UnmergedSentences(data, pause), min_w)

(* Measures used by the properties *)

RECURSIVE SumWordCount(_)
SumWordCount(sents) ==
    IF Len(sents) = 0 THEN 0 ELSE Head(sents).wordCount + SumWordCount(Tail(sents))

AllWordsOf(sents) == Flatten([k \in 1..Len(sents) |-> sents[k].words])
AllTextOf(sents) == Join([k \in 1..Len(sents) |-> sents[k].text], Space)

-----------------------------------------------------------------------------
(* Vectors and similarity (lines 349-392) *)

Vec(ints) == [v |-> ints, d |-> 1]
ZeroVector == Vec([k \in 1..EMBEDDING_DIMS |-> 0])      \* [0.0] * EMBEDDING_DIMS
EmptyVector == Vec(<<>>)                                \* []

-----------------------------------------------------------------------------
(* Floating point.  A float is m * 2^e with FloatBits significant bits:
   m = 0 and e = 0, or HalfLimit <= |m| < Limit.  Every operation
   returns the float nearest to the exact result, ties to the even mantissa,
   as the doubles of the program do; exponents are unbounded. *)

Float(m, e) == [m |-> m, e |-> e]
Limit == Pow2(FloatBits)               \* mantissas are below it
HalfLimit == Pow2(FloatBits - 1)       \* and not below this
FloatZero == Float(0, 0)                                \* 0.0

RECURSIVE RoundRatio(_, _, _, _)
\* the float nearest to sign * (n / d) * 2^e, for n > 0 and d > 0
RoundRatio(sign, n, d, e) ==
    IF n >= d * Limit THEN RoundRatio(sign, n, 2 * d, e + 1)
    ELSE IF n < d * HalfLimit THEN RoundRatio(sign, 2 * n, d, e - 1)
    ELSE LET q == n \div d
             r == n % d
             m == IF 2 * r > d \/ (2 * r = d /\ q % 2 = 1) THEN q + 1 ELSE q
         IN IF m = Limit
            THEN Float(sign * HalfLimit, e + 1)
            ELSE Float(sign * m, e)

\* the float written n / d (d > 0)
FloatOf(n, d) == IF n = 0 THEN FloatZero ELSE RoundRatio(Sign(n), Abs(n), d, 0)

\* a * b
FMul(a, b) ==
    IF a.m = 0 \/ b.m = 0 THEN FloatZero
    ELSE RoundRatio(Sign(a.m) * Sign(b.m), Abs(a.m) * Abs(b.m), 1, a.e + b.e)

\* a / b for b # 0
FDiv(a, b) ==
    IF a.m = 0 THEN FloatZero
    ELSE RoundRatio(Sign(a.m) * Sign(b.m), Abs(a.m), Abs(b.m), a.e - b.e)

\* a + b; a summand below a quarter of the other's last bit does not count
FAdd(a, b) ==
    IF a.m = 0 THEN b
    ELSE IF b.m = 0 THEN a
    ELSE IF a.e - b.e > FloatBits + 1 THEN a
    ELSE IF b.e - a.e > FloatBits + 1 THEN b
    ELSE LET e == Min(a.e, b.e)
             sum == a.m * Pow2(a.e - e) + b.m * Pow2(b.e - e)
         IN IF sum = 0 THEN FloatZero ELSE RoundRatio(Sign(sum), Abs(sum), 1, e)

RECURSIVE ISqrt(_, _, _)
\* the largest s in lo..hi with s * s <= n
ISqrt(n, lo, hi) ==
    IF lo >= hi THEN lo
    ELSE LET mid == (lo + hi + 1) \div 2
         IN IF mid * mid <= n THEN ISqrt(n, mid, hi) ELSE ISqrt(n, lo, mid - 1)

\* math.sqrt(a) for a >= 0: a is scaled to an integer n of 2 * FloatBits - 1
\* or 2 * FloatBits bits by an even power of two, and the root of n rounded
FSqrt(a) ==
    IF a.m = 0 THEN FloatZero
    ELSE LET k == IF (a.e - (FloatBits - 1)) % 2 = 0 THEN FloatBits - 1 ELSE FloatBits
             n == a.m * Pow2(k)
             s == ISqrt(n, HalfLimit, Limit - 1)
             m == IF n > s * s + s THEN s + 1 ELSE s
         IN IF m = Limit
            THEN Float(HalfLimit, (a.e - k) \div 2 + 1)
            ELSE Float(m, (a.e - k) \div 2)

\* a < b
FLess(a, b) ==
    IF a.m = 0 THEN b.m > 0
    ELSE IF b.m = 0 THEN a.m < 0
    ELSE IF Sign(a.m) # Sign(b.m) THEN a.m < 0
    ELSE IF a.m > 0 THEN a.e < b.e \/ (a.e = b.e /\ a.m < b.m)
    ELSE a.e > b.e \/ (a.e = b.e /\ a.m < b.m)

SimZero == FloatZero                                    \* 0.0
SimOne == FloatOf(1, 1)                                 \* 1.0

Ok(x) == [err |-> "none", val |-> x]
Raised(name) == [err |-> name]

RECURSIVE SumOver(_, _)
\* sum of f[k] for k in 1..n
SumOver(f, n) == IF n = 0 THEN 0 ELSE f[n] + SumOver(f, n - 1)

RECURSIVE ProdDen(_)
ProdDen(embs) == IF Len(embs) = 0 THEN 1 ELSE Head(embs).d * ProdDen(Tail(embs))

\* average_embedding (lines 380-392).  avg has len(embeddings[0]) entries; a
\* longer later vector overruns it (IndexError), a shorter one adds to the
\* first entries only.
average_embedding(embs) ==
    IF Len(embs) = 0 THEN Ok(EmptyVector)
    ELSE IF Len(embs) = 1 THEN Ok(embs[1])
    ELSE LET dims == Len(embs[1].v)
             D == ProdDen(embs)
         IN IF \E k \in 1..Len(embs) : Len(embs[k].v) > dims
            THEN Raised("IndexError")
            ELSE Ok([v |-> [i \in 1..dims |->
                              SumOver([k \in 1..Len(embs) |->
                                         IF i <= Len(embs[k].v)
                                         THEN embs[k].v[i] * (D \div embs[k].d)
                                         ELSE 0], Len(embs))],
                     d |-> D * Len(embs)])

\* the entries of a vector as floats: an entry of an embedding is a small
\* integer, and an entry of an average is one sum divided once (line 391)
Floats(vec) == [i \in 1..Len(vec.v) |-> FloatOf(vec.v[i], vec.d)]

RECURSIVE SumProducts(_, _, _)
\* sum(a * b for a, b in zip(x, y)) over the first k pairs, left to right
SumProducts(x, y, k) ==
    IF k = 0 THEN FloatZero
    ELSE FAdd(SumProducts(x, y, k - 1), FMul(x[k], y[k]))

\* lines 370-377, in floating point
SimValue(a, b) ==
    LET x == Floats(a)
        y == Floats(b)
        dot_product == SumProducts(x, y, Min(Len(x), Len(y)))
        norm_a == FSqrt(SumProducts(x, x, Len(x)))
        norm_b == FSqrt(SumProducts(y, y, Len(y)))
    IN IF norm_a = FloatZero \/ norm_b = FloatZero THEN SimZero
       ELSE FDiv(dot_product, FMul(norm_a, norm_b))

\* a plausible slip: no length check, zip() stops at the shorter vector
cosine_similarity_NoLengthCheck(vec_a, vec_b) == Ok(SimValue(vec_a, vec_b))

\* cosine_similarity (lines 367-377)
cosine_similarity(vec_a, vec_b) ==
    IF Len(vec_a.v) # Len(vec_b.v) THEN Raised("ValueError")
    ELSE Ok(SimValue(vec_a, vec_b))

\* a plausible slip: a similarity equal to the threshold marks a boundary
SimLess_OrEqual(sim, t) == sim = FloatOf(t.n, t.d) \/ FLess(sim, FloatOf(t.n, t.d))

\* `sim < threshold` for the threshold written t.n / t.d
SimLess(sim, t) == FLess(sim, FloatOf(t.n, t.d))

-----------------------------------------------------------------------------
(* Boundary detection (lines 395-484) *)

Detected(b, sims) == [err |-> "none", boundaries |-> b, similarities |-> sims]

RECURSIVE AdjacentLoop(_, _, _, _, _)
\* the loop of detect_topic_boundaries (lines 417-424)
AdjacentLoop(embs, t, i, b, sims) ==
    IF i >= Len(embs) - 1 THEN Detected(b, sims)
    ELSE LET r == cosine_similarity(embs[i + 1], embs[i + 2])
         IN IF r.err # "none" THEN Raised(r.err)
            ELSE AdjacentLoop(embs, t, i + 1,
                     IF SimLess(r.val, t) THEN Append(b, i + 1) ELSE b,
                     Append(sims, r.val))

\* a plausible slip: boundaries.append(i) instead of boundaries.append(i + 1)
detect_topic_boundaries_AppendsI(embs, t) ==
    LET r == AdjacentLoop(embs, t, 0, <<>>, <<>>)
    IN IF r.err # "none" THEN r
       ELSE Detected([k \in 1..Len(r.boundaries) |-> r.boundaries[k] - 1], r.similarities)

\* lines 414-426
detect_topic_boundaries(embs, t) == AdjacentLoop(embs, t, 0, <<>>, <<>>)

\* a plausible slip: the window after the point leaves out sentence i
WindowSimilarity_SkipsCurrent(embs, i, w) ==
    LET start_before == Max(0, i - w)
        before_window == SubSeq(embs, start_before + 1, i)
        end_after == Min(Len(embs), i + 1 + w)
        after_window == SubSeq(embs, i + 2, end_after)
        before_avg == average_embedding(before_window)
        after_avg == average_embedding(after_window)
    IN IF before_avg.err # "none" THEN Raised(before_avg.err)
       ELSE IF after_avg.err # "none" THEN Raised(after_avg.err)
       ELSE cosine_similarity(before_avg.val, after_avg.val)

\* the similarity computed at candidate point i (lines 466-478)
WindowSimilarity(embs, i, w) ==
    LET start_before == Max(0, i - w)
        before_window == SubSeq(embs, start_before + 1, i)
        end_after == Min(Len(embs), i + w)
        after_window == SubSeq(embs, i + 1, end_after)
        before_avg == average_embedding(before_window)
        after_avg == average_embedding(after_window)
    IN IF before_avg.err # "none" THEN Raised(before_avg.err)
       ELSE IF after_avg.err # "none" THEN Raised(after_avg.err)
       ELSE cosine_similarity(before_avg.val, after_avg.val)

RECURSIVE WindowedLoop(_, _, _, _, _, _)
\* the loop of detect_topic_boundaries_windowed (lines 464-482)
WindowedLoop(embs, t, w, i, b, sims) ==
    IF i >= Len(embs) THEN Detected(b, sims)
    ELSE LET r == WindowSimilarity(embs, i, w)
         IN IF r.err # "none" THEN Raised(r.err)
            ELSE WindowedLoop(embs, t, w, i + 1,
                     IF SimLess(r.val, t) THEN Append(b, i) ELSE b,
                     Append(sims, r.val))

detect_topic_boundaries_windowed(embs, t, w) ==
    IF Len(embs) < 2 THEN Detected(<<>>, <<>>)
    ELSE WindowedLoop(embs, t, w, 1, <<>>, <<>>)

-----------------------------------------------------------------------------
(* Paragraph building (lines 699-935) *)

SeqRange(xs) == {xs[k] : k \in 1..Len(xs)}

\* a plausible slip: only the paragraph with index 0 is marked as a topic start
ClosedParagraph_OnlyFirstMarked(cur_sents, cur_words, para_index, i, sims) ==
    [id            |-> para_index,
     text          |-> AllTextOf(cur_sents),
     words         |-> cur_words,
     start         |-> cur_sents[1].start,
     end           |-> cur_sents[Len(cur_sents)].end,
     duration      |-> cur_sents[Len(cur_sents)].end - cur_sents[1].start,
     wordCount     |-> Len(cur_words),
     isTopicStart  |-> (para_index = 0),
     topicSimilarity |-> IF i > 0 /\ i - 1 < Len(sims) THEN sims[i] ELSE SimOne,
     sentenceCount |-> Len(cur_sents)]

\* a plausible slip: the similarity after the boundary sentence is recorded
ClosedParagraph_NextSimilarity(cur_sents, cur_words, para_index, i, sims) ==
    [id            |-> para_index,
     text          |-> AllTextOf(cur_sents),
     words         |-> cur_words,
     start         |-> cur_sents[1].start,
     end           |-> cur_sents[Len(cur_sents)].end,
     duration      |-> cur_sents[Len(cur_sents)].end - cur_sents[1].start,
     wordCount     |-> Len(cur_words),
     isTopicStart  |-> (para_index = 0 \/ para_index > 0),
     topicSimilarity |-> IF i < Len(sims) THEN sims[i + 1] ELSE SimOne,
     sentenceCount |-> Len(cur_sents)]

\* the paragraph closed when sentence i starts a new topic (lines 733-749);
\* the segments and chunkIds entries are left out
ClosedParagraph(cur_sents, cur_words, para_index, i, sims) ==
    [id            |-> para_index,
     text          |-> AllTextOf(cur_sents),
     words         |-> cur_words,
     start         |-> cur_sents[1].start,
     end           |-> cur_sents[Len(cur_sents)].end,
     duration      |-> cur_sents[Len(cur_sents)].end - cur_sents[1].start,
     wordCount     |-> Len(cur_words),
     isTopicStart  |-> (para_index = 0 \/ para_index > 0),
     topicSimilarity |-> IF i > 0 /\ i - 1 < Len(sims) THEN sims[i] ELSE SimOne,
     sentenceCount |-> Len(cur_sents)]

\* the paragraph appended after the loop (lines 760-777)
LastParagraph(cur_sents, cur_words, para_index, n_paragraphs, n_sentences, bset) ==
    LET is_topic_start ==
            n_paragraphs = 0 \/ (n_sentences - Len(cur_sents)) \in bset
    IN [id            |-> para_index,
        text          |-> AllTextOf(cur_sents),
        words         |-> cur_words,
        start         |-> cur_sents[1].start,
        end           |-> cur_sents[Len(cur_sents)].end,
        duration      |-> cur_sents[Len(cur_sents)].end - cur_sents[1].start,
        wordCount     |-> Len(cur_words),
        isTopicStart  |-> IF para_index > 0 THEN is_topic_start ELSE TRUE,
        topicSimilarity |-> SimOne,
        sentenceCount |-> Len(cur_sents)]

RECURSIVE BuildLoop_BreaksEarly(_, _, _, _, _, _, _)
\* a plausible slip: the break is made one sentence before the boundary
BuildLoop_BreaksEarly(sents, bset, sims, i, cur_sents, cur_words, paras) ==
    IF i >= Len(sents)
    THEN [paragraphs |-> paras, cur_sents |-> cur_sents, cur_words |-> cur_words]
    ELSE IF (i + 1) \in bset /\ Len(cur_sents) > 0
         THEN BuildLoop_BreaksEarly(sents, bset, sims, i + 1,
                  <<sents[i + 1]>>, sents[i + 1].words,
                  Append(paras, ClosedParagraph(cur_sents, cur_words, Len(paras), i, sims)))
         ELSE BuildLoop_BreaksEarly(sents, bset, sims, i + 1,
                  Append(cur_sents, sents[i + 1]), cur_words \o sents[i + 1].words,
                  paras)

RECURSIVE BuildLoop(_, _, _, _, _, _, _)
\* the for loop of build_paragraphs_from_sentences (lines 729-756); the
\* result is the loop's state when it ends
BuildLoop(sents, bset, sims, i, cur_sents, cur_words, paras) ==
    IF i >= Len(sents)
    THEN [paragraphs |-> paras, cur_sents |-> cur_sents, cur_words |-> cur_words]
    ELSE IF i \in bset /\ Len(cur_sents) > 0
         THEN BuildLoop(sents, bset, sims, i + 1,
                  <<sents[i + 1]>>, sents[i + 1].words,
                  Append(paras, ClosedParagraph(cur_sents, cur_words, Len(paras), i, sims)))
         ELSE BuildLoop(sents, bset, sims, i + 1,
                  Append(cur_sents, sents[i + 1]), cur_words \o sents[i + 1].words,
                  paras)

\* a plausible slip: the remaining accumulator is never flushed
FlushLast_Forgotten(st, n_sentences, bset) == st.paragraphs

\* "Don't forget the last paragraph" (lines 759-777)
FlushLast(st, n_sentences, bset) ==
    IF Len(st.cur_sents) > 0
    THEN Append(st.paragraphs,
             LastParagraph(st.cur_sents, st.cur_words, Len(st.paragraphs),
                           Len(st.paragraphs), n_sentences, bset))
    ELSE st.paragraphs

\* lines 781-782
MarkFirst(paras) ==
    IF Len(paras) > 0 THEN [paras EXCEPT ![1].isTopicStart = TRUE] ELSE paras

build_paragraphs_from_sentences(sents, bnds, sims) ==
    IF Len(sents) = 0 THEN <<>>
    ELSE MarkFirst(FlushLast(
             BuildLoop(sents, SeqRange(bnds), sims, 0, <<>>, <<>>, <<>>),
             Len(sents), SeqRange(bnds)))

\* format_transcript_with_sentence_topics (lines 880-935); the timestamp, the
\* model identifiers and the rounded similarity statistics are left out
format_transcript_with_sentence_topics(sents, bnds, sims, t) ==
    LET new_paragraphs == build_paragraphs_from_sentences(sents, bnds, sims)
        topic_count == Cardinality({k \in 1..Len(new_paragraphs) :
                                       new_paragraphs[k].isTopicStart})
    IN [paragraphs      |-> new_paragraphs,
        topicBoundaries |-> bnds,
        topicStats      |-> [topicCount     |-> topic_count,
                             sentenceCount  |-> Len(sents),
                             paragraphCount |-> Len(new_paragraphs),
                             threshold      |-> t]]

-----------------------------------------------------------------------------
(* State groups *)

extractVars == <<processed_data, all_words, pause_threshold, min_words, grouped, sentences>>
gatewayVars == <<embeddings, embedding, cache_available, cache_hits, cache_misses,
                 s3vectors_client, cache, calls>>
detectVars == <<threshold, window_size, boundaries, similarities, adjacent>>
sinkVars == <<s3, local_file, source>>
ctlVars == <<args, exit_status, error, run>>

NoError == [type |-> "none", at |-> "none"]
Err(type, at) == [type |-> type, at |-> at]

NoArgs == [session |-> FALSE, output_path |-> FALSE, dry_run |-> FALSE,
           skip_cache |-> FALSE, force |-> FALSE]

ExtractIdle ==
    /\ processed_data = <<>> /\ all_words = <<>>
    /\ pause_threshold = DEFAULT_PAUSE_THRESHOLD /\ min_words = DEFAULT_MIN_WORDS
    /\ grouped = <<>>
GatewayIdle ==
    /\ embedding = None /\ cache_available = FALSE
    /\ cache_hits = 0 /\ cache_misses = 0
    /\ s3vectors_client = "None" /\ cache = <<>> /\ calls = <<>>
DetectIdle ==
    /\ boundaries = <<>> /\ similarities = <<>> /\ adjacent = None
SinkIdle ==
    /\ output_data = None
    /\ s3 = [layer3 |-> NoObject, legacy |-> NoObject]
    /\ local_file = NoObject
    /\ source = NoObject
CtlIdle ==
    /\ args = NoArgs /\ exit_status = "running" /\ error = NoError /\ run = 1

-----------------------------------------------------------------------------
(* Inputs explored *)

\* word texts: plain, punctuated, empty, and punctuated with a final newline
WordTexts == {<<"a">>, <<"b", ".">>, <<>>, <<"a", "!", "\n">>}
WordGaps == {DEFAULT_PAUSE_THRESHOLD, DEFAULT_PAUSE_THRESHOLD + 1}
MinWordsChoices == {1, 2, 3, DEFAULT_MIN_WORDS}

WordAt(text, start) == [word |-> text, start |-> start, end |-> start + 1]

RECURSIVE WordStreams(_)
\* the time-ordered word streams of at most n words
WordStreams(n) ==
    IF n = 0 THEN {<<>>}
    ELSE LET shorter == WordStreams(n - 1)
         IN shorter \cup
            {Append(s, WordAt(t, IF Len(s) = 0 THEN 0 ELSE s[Len(s)].end + g)) :
                s \in {x \in shorter : Len(x) = n - 1},
                t \in WordTexts, g \in WordGaps}

ParagraphOfWords(ws) ==
    [text      |-> Join([k \in 1..Len(ws) |-> ws[k].word], Space),
     words     |-> ws,
     startTime |-> IF Len(ws) = 0 THEN 0 ELSE ws[1].start,
     endTime   |-> IF Len(ws) = 0 THEN 0 ELSE ws[Len(ws)].end]

ParagraphOfText(text, k) ==
    [text |-> text, words |-> <<>>, startTime |-> 10 * k, endTime |-> 10 * k + 5]

\* a transcript whose paragraphs carry the word stream ws
TranscriptOfWords(ws) ==
    IF Len(ws) <= 1 THEN <<ParagraphOfWords(ws)>>
    ELSE <<ParagraphOfWords(SubSeq(ws, 1, Len(ws) \div 2)),
           ParagraphOfWords(SubSeq(ws, Len(ws) \div 2 + 1, Len(ws)))>>

TextChars == {"a", " ", "."}

\* transcripts without word-level data
TextTranscripts ==
    {<<>>}
    \cup {<<ParagraphOfText(t, 0)>> : t \in SeqsUpTo(TextChars, MaxTextLen)}
    \cup {<<ParagraphOfText(t, 0), ParagraphOfText(u, 1)>> :
             t \in SeqsUpTo(TextChars, MaxTextLen),
             u \in {<<"a">>, <<"a", " ", "a", ".">>}}

SmallTranscripts ==
    {TranscriptOfWords(ws) : ws \in WordStreams(MaxWords)} \cup TextTranscripts

-----------------------------------------------------------------------------
(* extract_sentences_from_transcript, step by step (lines 637-666) *)

ExtractWords ==
    /\ pc = "extract"
    /\ all_words' = extract_all_words_from_transcript(processed_data)
    /\ pc' = IF Len(all_words') = 0 THEN "fallback" ELSE "group"
    /\ UNCHANGED <<processed_data, pause_threshold, min_words, grouped, sentences>>
    /\ UNCHANGED <<gatewayVars, detectVars, output_data, sinkVars, ctlVars>>

GroupWords ==
    /\ pc = "group"
    /\ grouped' = group_words_into_sentences(all_words, pause_threshold)
    /\ pc' = "merge"
    /\ UNCHANGED <<processed_data, all_words, pause_threshold, min_words, sentences>>
    /\ UNCHANGED <<gatewayVars, detectVars, output_data, sinkVars, ctlVars>>

FallbackSplit ==
    /\ pc = "fallback"
    /\ grouped' = FallbackSentences(processed_data)
    /\ pc' = "merge"
    /\ UNCHANGED <<processed_data, all_words, pause_threshold, min_words, sentences>>
    /\ UNCHANGED <<gatewayVars, detectVars, output_data, sinkVars, ctlVars>>

MergeShort ==
    /\ pc = "merge"
    /\ sentences' = merge_short_sentences(grouped, min_words)
    /\ pc' = "extracted"
    /\ UNCHANGED <<processed_data, all_words, pause_threshold, min_words, grouped>>
    /\ UNCHANGED <<gatewayVars, detectVars, output_data, sinkVars, ctlVars>>

InitExtract ==
    /\ pc = "extract"
    /\ processed_data \in SmallTranscripts
    /\ pause_threshold = DEFAULT_PAUSE_THRESHOLD
    /\ min_words \in MinWordsChoices
    /\ all_words = <<>> /\ grouped = <<>> /\ sentences = <<>>
    /\ embeddings = <<>> /\ threshold = TOPIC_THRESHOLD
    /\ window_size = MAIN_WINDOW_SIZE
    /\ GatewayIdle /\ DetectIdle /\ SinkIdle /\ CtlIdle

NextExtract == ExtractWords \/ GroupWords \/ FallbackSplit \/ MergeShort

\* sentence extraction and merging over every small transcript
SpecExtract == InitExtract /\ [][NextExtract]_vars

InitGroup ==
    /\ pc = "group"
    /\ all_words \in WordStreams(MaxWords)
    /\ processed_data = TranscriptOfWords(all_words)
    /\ pause_threshold = DEFAULT_PAUSE_THRESHOLD
    /\ min_words \in MinWordsChoices
    /\ grouped = <<>> /\ sentences = <<>>
    /\ embeddings = <<>> /\ threshold = TOPIC_THRESHOLD
    /\ window_size = MAIN_WINDOW_SIZE
    /\ GatewayIdle /\ DetectIdle /\ SinkIdle /\ CtlIdle

NextGroup == GroupWords \/ MergeShort

\* group_words_into_sentences applied to every small word stream, the empty
\* one included, followed by the merge
SpecGroup == InitGroup /\ [][NextGroup]_vars

-----------------------------------------------------------------------------
(* Properties of extraction and merging *)

\* C8: the sentences produced by group_words_into_sentences hold every input
\* word exactly once and in input order, each wordCount is the length of the
\* sentence's word list, so the wordCounts sum to the number of input words;
\* an empty word stream yields an empty sentence sequence.
C8_WordConservation ==
    pc \in {"merge", "extracted"} =>
        /\ AllWordsOf(grouped) = all_words
        /\ \A k \in 1..Len(grouped) : grouped[k].wordCount = Len(grouped[k].words)
        /\ SumWordCount(grouped) = Len(all_words)
        /\ (Len(all_words) = 0 => grouped = <<>>)

C8_Witness ==
    /\ pc = "merge"
    /\ Len(all_words) = MaxWords
    /\ Len(grouped) >= 2
    /\ ~EndsWithTerminal(all_words[Len(all_words)].word)

\* C9: merge_short_sentences gives a non-empty output for a non-empty input,
\* and the output's texts joined by single spaces and its word lists
\* concatenated equal those of the input, in the same order.
C9_MergeKeepsContent ==
    pc = "extracted" =>
        /\ (Len(grouped) > 0 => Len(sentences) > 0)
        /\ AllTextOf(sentences) = AllTextOf(grouped)
        /\ AllWordsOf(sentences) = AllWordsOf(grouped)

C9_Witness ==
    /\ pc = "extracted"
    /\ Len(grouped) >= 3
    /\ Len(sentences) = 2
    /\ Len(AllWordsOf(grouped)) > 0
    /\ Len(sentences[1].words) > Len(grouped[1].words)

\* C10: merge_short_sentences conserves the total wordCount, for sentences
\* built from word-level data and for fallback sentences whose words list is
\* empty and whose wordCount is an estimate taken from the text.
C10_WordCountConserved ==
    pc = "extracted" => SumWordCount(sentences) = SumWordCount(grouped)

\* Python indices, in the word stream, of the last words of the sentences
LastWordIndices(sents) ==
    {Len(AllWordsOf(SubSeq(sents, 1, k))) - 1 : k \in 1..Len(sents)}

\* the last character of the word's text is '.', '!' or '?'
TextEndsWithPunctuation(word) ==
    Len(word) > 0 /\ word[Len(word)] \in SentenceTerminal

\* the word's text is '.', '!' or '?' followed by one final newline
PunctuationThenNewline(word) ==
    /\ Len(word) > 1
    /\ word[Len(word)] = "\n"
    /\ word[Len(word) - 1] \in SentenceTerminal

\* the gap between word i's end and the next word's start exceeds the pause
PauseAfter(i) ==
    /\ i < Len(all_words) - 1
    /\ all_words[i + 2].start - all_words[i + 1].end > pause_threshold

\* C19 as stated: word i is the last word of a sentence if and only if its
\* text ends with '.', '!' or '?', or the gap to the next word is strictly
\* greater than the pause threshold, or it is the last word of the stream.
C19_TerminationRule ==
    pc \in {"merge", "extracted"} =>
        \A i \in 0..(Len(all_words) - 1) :
            (i \in LastWordIndices(grouped)) <=>
                \/ TextEndsWithPunctuation(all_words[i + 1].word)
                \/ PauseAfter(i)
                \/ i = Len(all_words) - 1

\* C19 amended: word i is the last word of a sentence if and only if its
\* text ends with '.', '!' or '?', or with one of them followed by a single
\* final newline, or the gap to the next word is strictly greater than the
\* pause threshold, or it is the last word of the stream.
C19_TerminationRuleAmended ==
    pc \in {"merge", "extracted"} =>
        \A i \in 0..(Len(all_words) - 1) :
            (i \in LastWordIndices(grouped)) <=>
                \/ TextEndsWithPunctuation(all_words[i + 1].word)
                \/ PunctuationThenNewline(all_words[i + 1].word)
                \/ PauseAfter(i)
                \/ i = Len(all_words) - 1

\* unpunctuated words: a gap of 2.0 s split the stream, a gap of 1.5 s (the
\* threshold) did not
C19_Witness ==
    /\ pc = "merge"
    /\ Len(all_words) = 3
    /\ \A k \in 1..3 : all_words[k].word = <<"a">>
    /\ all_words[2].start - all_words[1].end = DEFAULT_PAUSE_THRESHOLD + 1
    /\ all_words[3].start - all_words[2].end = DEFAULT_PAUSE_THRESHOLD
    /\ LastWordIndices(grouped) = {0, 2}

\* the sentence data model: the times are those of the first and last word,
\* wordCount counts the words, and each sentence ends before the next starts
WellFormedSentences(sents) ==
    /\ \A k \in 1..Len(sents) :
          /\ Len(sents[k].words) > 0
          /\ sents[k].start = sents[k].words[1].start
          /\ sents[k].end = sents[k].words[Len(sents[k].words)].end
          /\ sents[k].wordCount = Len(sents[k].words)
    /\ \A k \in 1..(Len(sents) - 1) :
          /\ sents[k].start <= sents[k].end
          /\ sents[k].end <= sents[k + 1].start

\* C20: for a time-ordered, non-overlapping word stream the sentences
\* returned by group_words_into_sentences, and those returned by
\* merge_short_sentences from them, satisfy the sentence data model.
C20_SentenceDataModel ==
    /\ pc \in {"merge", "extracted"} => WellFormedSentences(grouped)
    /\ pc = "extracted" => WellFormedSentences(sentences)

\* a short first sentence was merged into the next one and a short later
\* sentence into the one before it
C20_Witness ==
    /\ pc = "extracted"
    /\ Len(grouped) = 4
    /\ grouped[1].wordCount < min_words
    /\ Len(sentences) = 1
    /\ sentences[1].start = grouped[1].start
    /\ sentences[1].end = grouped[4].end

\* C11: when every input sentence has a non-empty text, no sentence returned
\* by merge_short_sentences has an empty text; the output is never longer
\* than the input; an input of 0 or 1 sentences is returned unchanged.
C11_MergeSafety ==
    pc = "extracted" =>
        /\ (\A k \in 1..Len(grouped) : Len(grouped[k].text) > 0) =>
              (\A k \in 1..Len(sentences) : Len(sentences[k].text) > 0)
        /\ Len(sentences) <= Len(grouped)
        /\ (Len(grouped) <= 1 => sentences = grouped)

\* three sentences with non-empty texts were merged into fewer
C11_Witness ==
    /\ pc = "extracted"
    /\ Len(grouped) = 3
    /\ \A k \in 1..Len(grouped) : Len(grouped[k].text) > 0
    /\ Len(sentences) < Len(grouped)
    /\ \A k \in 1..Len(sentences) : Len(sentences[k].text) > 0

-----------------------------------------------------------------------------
(* merge_short_sentences as a pure function: grouped holds the argument of
   the call and sentences its result *)

\* word counts of the sentences explored: short ones, one of exactly the
\* default minimum, and a long one
MergeCounts == {1, 2, DEFAULT_MIN_WORDS, DEFAULT_MIN_WORDS + 3}

\* a sentence of c words that follow the first k words of the stream
SentenceOfCount(c, k) ==
    SentenceOfWords([j \in 1..c |-> WordAt(<<"a">>, 2 * (k + j - 1))])

\* a sentence without word-level data whose text has c words
FallbackOfCount(c, k) ==
    [text      |-> Join([j \in 1..c |-> <<"a">>], Space),
     words     |-> <<>>,
     start     |-> 2 * k,
     end       |-> 2 * (k + c) - 1,
     wordCount |-> c]

RECURSIVE SentencesFrom(_, _, _)
\* the sentence list with the given word counts
SentencesFrom(counts, k, word_level) ==
    IF Len(counts) = 0 THEN <<>>
    ELSE <<IF word_level THEN SentenceOfCount(Head(counts), k)
                         ELSE FallbackOfCount(Head(counts), k)>>
         \o SentencesFrom(Tail(counts), k + Head(counts), word_level)

MergeInputs ==
    {SentencesFrom(counts, 0, word_level) :
        counts \in SeqsUpTo(MergeCounts, MaxMerged), word_level \in BOOLEAN}

InitMerge ==
    /\ pc = "merge"
    /\ grouped \in MergeInputs
    /\ min_words \in MinWordsChoices
    /\ processed_data = <<>> /\ all_words = <<>>
    /\ pause_threshold = DEFAULT_PAUSE_THRESHOLD
    /\ sentences = <<>>
    /\ embeddings = <<>> /\ threshold = TOPIC_THRESHOLD
    /\ window_size = MAIN_WINDOW_SIZE
    /\ GatewayIdle /\ DetectIdle /\ SinkIdle /\ CtlIdle

NextMerge == MergeShort

SpecMerge == InitMerge /\ [][NextMerge]_vars

\* the wordCount the loop reads when it reaches sentence j (1-based) while
\* nothing has been accepted yet: the sentences before it were prepended
EffectiveCount(sents, j) ==
    IF j = 1 THEN sents[1].wordCount ELSE Len(AllWordsOf(SubSeq(sents, 1, j)))

\* the first sentence that is accepted: the first that is not short when it
\* is reached, or the last one, which is kept as it is
FirstAccepted(sents, min_w) ==
    CHOOSE j \in 1..Len(sents) :
        /\ j = Len(sents) \/ EffectiveCount(sents, j) >= min_w
        /\ \A k \in 1..(j - 1) : EffectiveCount(sents, k) < min_w

\* the input indices at which an output sentence begins
OutputStarts(sents, min_w) ==
    {1} \cup {j \in (FirstAccepted(sents, min_w) + 1)..Len(sents) :
                 sents[j].wordCount >= min_w}

\* the k-th smallest member of a set of numbers
NthOf(S, k) == CHOOSE x \in S : Cardinality({y \in S : y < x}) = k - 1

\* the input sentences a..b as one sentence
MergedSpan(sents, a, b) ==
    IF a = b THEN sents[a]
    ELSE [text      |-> Join([k \in 1..(b - a + 1) |-> sents[a + k - 1].text], Space),
          words     |-> AllWordsOf(SubSeq(sents, a, b)),
          start     |-> sents[a].start,
          end       |-> sents[b].end,
          wordCount |-> Len(AllWordsOf(SubSeq(sents, a, b)))]

\* C21: merge_short_sentences, in sequence order, appends a short sentence
\* to the last accepted sentence when there is one (whose end becomes the
\* short sentence's end), else prepends it to the next sentence when there
\* is one (whose start becomes the short sentence's start), else keeps it:
\* the output is the input cut before every sentence that is not short and
\* follows the first accepted one.  A 2-word sentence after an 8-word one
\* with min_words = 5 gives one sentence less and keeps the words in order.
C21_MergePolicy ==
    (pc = "extracted" /\ Len(grouped) >= 1) =>
        LET starts == OutputStarts(grouped, min_words)
            last(k) == IF k = Cardinality(starts) THEN Len(grouped)
                       ELSE NthOf(starts, k + 1) - 1
        IN /\ Len(sentences) = Cardinality(starts)
           /\ \A k \in 1..Len(sentences) :
                 sentences[k] = MergedSpan(grouped, NthOf(starts, k), last(k))
           /\ (/\ Len(grouped) = 2
               /\ grouped[1].wordCount = 8 /\ grouped[2].wordCount = 2
               /\ min_words = 5) =>
                  /\ Len(sentences) = Len(grouped) - 1
                  /\ AllWordsOf(sentences) = AllWordsOf(grouped)
                  /\ AllTextOf(sentences) = AllTextOf(grouped)

\* a short first sentence went to the 8-word sentence after it and a short
\* third sentence to the sentence accepted before it
C21_Witness ==
    /\ pc = "extracted"
    /\ min_words = 5
    /\ Len(grouped) = 3
    /\ grouped[1].wordCount = 2 /\ grouped[2].wordCount = 8
    /\ grouped[3].wordCount = 2
    /\ Len(grouped[1].words) = 2
    /\ Len(sentences) = 1
    /\ sentences[1].start = grouped[1].start
    /\ sentences[1].end = grouped[3].end
    /\ Len(sentences[1].words) = 12

WordCountsMatch(sents) ==
    \A k \in 1..Len(sents) : sents[k].wordCount = Len(sents[k].words)

\* C27: after merge_short_sentences on sentences whose wordCount is the
\* length of their word list, an output of 2 or more sentences has no short
\* sentence, an output of one short sentence means that the whole input has
\* fewer than min_words words, and merging the output again changes nothing.
C27_ShortOnlyWhenAlone ==
    (pc = "extracted" /\ WordCountsMatch(grouped)) =>
        /\ Len(sentences) >= 2 =>
              \A k \in 1..Len(sentences) : sentences[k].wordCount >= min_words
        /\ (Len(sentences) = 1 /\ sentences[1].wordCount < min_words) =>
              Len(AllWordsOf(grouped)) < min_words
        /\ merge_short_sentences(sentences, min_words) = sentences

\* a short sentence was merged away and two sentences, none short, remain
C27_Witness ==
    /\ pc = "extracted"
    /\ WordCountsMatch(grouped)
    /\ Len(grouped) = 3
    /\ \E k \in 1..3 : grouped[k].wordCount < min_words
    /\ Len(sentences) = 2
    /\ \A k \in 1..2 : sentences[k].wordCount >= min_words
    /\ sentences # grouped

-----------------------------------------------------------------------------
(* Boundary detection over every small embedding sequence *)

UnitVec(k) == Vec([i \in 1..EMBEDDING_DIMS |-> IF i = k THEN 1 ELSE 0])
OnesVec == Vec([i \in 1..EMBEDDING_DIMS |-> 1])
NegVec == Vec([i \in 1..EMBEDDING_DIMS |-> IF i = 1 THEN -1 ELSE 0])
ShortVec == Vec([i \in 1..(EMBEDDING_DIMS - 1) |-> 1])   \* other dimensionality
LongVec == Vec([i \in 1..(EMBEDDING_DIMS + 1) |-> 1])    \* other dimensionality

EmbeddingChoices == {UnitVec(1), UnitVec(2), OnesVec, NegVec, ZeroVector, ShortVec, LongVec}
ThresholdChoices == {[n |-> 0, d |-> 1], [n |-> 1, d |-> 5], [n |-> 1, d |-> 2],
                     [n |-> 3, d |-> 4], [n |-> 1, d |-> 1]}
WindowChoices == 1..MAIN_WINDOW_SIZE

\* detect_topic_boundaries on the embeddings (the adjacent-pair strategy; main
\* does not call it)
DetectAdjacent ==
    /\ pc = "detect_adjacent"
    /\ adjacent' = detect_topic_boundaries(embeddings, threshold)
    /\ pc' = "detect"
    /\ UNCHANGED <<threshold, window_size, boundaries, similarities>>
    /\ UNCHANGED <<extractVars, gatewayVars, output_data, sinkVars, ctlVars>>

\* main, lines 1220-1226: the windowed detector; an exception raised inside
\* it is not caught and ends the run with a traceback (exit status 1)
DetectWindowed ==
    /\ pc = "detect"
    /\ LET r == detect_topic_boundaries_windowed(embeddings, threshold, window_size)
       IN IF r.err = "none"
          THEN /\ boundaries' = r.boundaries
               /\ similarities' = r.similarities
               /\ pc' = "format"
               /\ UNCHANGED <<error, exit_status>>
          ELSE /\ error' = Err(r.err, "detect_topic_boundaries_windowed")
               /\ exit_status' = 1
               /\ pc' = "failed"
               /\ UNCHANGED <<boundaries, similarities>>
    /\ UNCHANGED <<threshold, window_size, adjacent, args, run>>
    /\ UNCHANGED <<extractVars, gatewayVars, output_data, sinkVars>>

InitDetect ==
    /\ pc = "detect_adjacent"
    /\ embeddings \in SeqsUpTo(EmbeddingChoices, MaxSents)
    /\ threshold \in ThresholdChoices
    /\ window_size \in WindowChoices
    /\ sentences = <<>>
    /\ ExtractIdle /\ GatewayIdle /\ DetectIdle /\ SinkIdle /\ CtlIdle

NextDetect == DetectAdjacent \/ DetectWindowed

SpecDetect == InitDetect /\ [][NextDetect]_vars

-----------------------------------------------------------------------------
(* cosine_similarity as a pure function: embeddings holds the two arguments
   and similarities the results of the call and of the call with the
   arguments exchanged *)

MaxEntry == 3      \* largest absolute value of a vector entry explored

CosineVectors ==
    {Vec(<<x>>) : x \in -MaxEntry..MaxEntry}
        \cup {Vec(<<x, y>>) : x \in -MaxEntry..MaxEntry, y \in -MaxEntry..MaxEntry}

InitCosine ==
    /\ pc = "cosine"
    /\ embeddings \in {<<vec_a, vec_b>> : vec_a \in CosineVectors, vec_b \in CosineVectors}
    /\ threshold = TOPIC_THRESHOLD
    /\ window_size = MAIN_WINDOW_SIZE
    /\ sentences = <<>>
    /\ ExtractIdle /\ GatewayIdle /\ DetectIdle /\ SinkIdle /\ CtlIdle

\* cosine_similarity(vec_a, vec_b) and cosine_similarity(vec_b, vec_a)
CosineSimilarity ==
    /\ pc = "cosine"
    /\ LET ab == cosine_similarity(embeddings[1], embeddings[2])
           ba == cosine_similarity(embeddings[2], embeddings[1])
       IN IF ab.err = "none" /\ ba.err = "none"
          THEN /\ similarities' = <<ab.val, ba.val>>
               /\ pc' = "cosine_done"
               /\ UNCHANGED error
          ELSE /\ error' = Err(ab.err, "cosine_similarity")
               /\ pc' = "failed"
               /\ UNCHANGED similarities
    /\ UNCHANGED <<threshold, window_size, boundaries, adjacent, args, exit_status, run>>
    /\ UNCHANGED <<extractVars, gatewayVars, output_data, sinkVars>>

SpecCosine == InitCosine /\ [][CosineSimilarity]_vars

IsZeroVector(vec) == \A i \in 1..Len(vec.v) : vec.v[i] = 0

\* sim(a, b) = sim(b, a)
CosineSymmetric ==
    pc = "cosine_done" => similarities[1] = similarities[2]

\* sim(v, v) = 1.0 for v nonzero
CosineSelfIsOne ==
    (pc = "cosine_done" /\ embeddings[1] = embeddings[2]
        /\ ~IsZeroVector(embeddings[1])) => similarities[1] = SimOne

\* -1.0 <= sim(a, b) <= 1.0
CosineBounded ==
    pc = "cosine_done" =>
        /\ ~FLess(SimOne, similarities[1])
        /\ ~FLess(similarities[1], FloatOf(-1, 1))

\* 0.0, and no exception, when either vector has zero norm
CosineZeroNorm ==
    (pc \in {"cosine_done", "failed"}
        /\ Len(embeddings[1].v) = Len(embeddings[2].v)
        /\ (IsZeroVector(embeddings[1]) \/ IsZeroVector(embeddings[2]))) =>
        pc = "cosine_done" /\ similarities[1] = SimZero

\* C17: cosine_similarity on two vectors of equal length is symmetric,
\* returns 1.0 for sim(v, v) with v nonzero, stays within [-1, 1], and
\* returns 0.0 without raising whenever either vector has zero norm.
C17_CosineContract ==
    /\ CosineSymmetric
    /\ CosineSelfIsOne
    /\ CosineBounded
    /\ CosineZeroNorm

\* the list without its element at Python index k
RemoveAt(xs, k) == SubSeq(xs, 1, k) \o SubSeq(xs, k + 2, Len(xs))

\* the blank sentence at index k makes a boundary at k or k + 1 that is not
\* there between its neighbours once it is removed
BlankMakesBoundary(found, found_without, k) ==
    /\ k \in SeqRange(found) \/ (k + 1) \in SeqRange(found)
    /\ k \notin SeqRange(found_without)

\* C6: for any threshold in [0,1], a zero vector at an index k that has a
\* sentence on both sides never makes either detector mark a boundary at k or
\* k + 1 that is absent, between its neighbours, when it is removed.
C6_BlankNeverSignificant ==
    (/\ pc = "format"
     /\ adjacent.err = "none"
     /\ \A j \in 1..Len(embeddings) : Len(embeddings[j].v) = EMBEDDING_DIMS) =>
        \A k \in 1..(Len(embeddings) - 2) :
            embeddings[k + 1] = ZeroVector =>
                /\ ~BlankMakesBoundary(adjacent.boundaries,
                       detect_topic_boundaries(RemoveAt(embeddings, k), threshold).boundaries, k)
                /\ ~BlankMakesBoundary(boundaries,
                       detect_topic_boundaries_windowed(RemoveAt(embeddings, k),
                           threshold, window_size).boundaries, k)

\* b is strictly increasing and each of its entries lies in 1..n-1
IncreasingWithin(b, n) ==
    /\ \A k \in 1..Len(b) : 1 <= b[k] /\ b[k] <= n - 1
    /\ \A k \in 2..Len(b) : b[k - 1] < b[k]

\* C12: the boundary list returned by detect_topic_boundaries and the one
\* returned by detect_topic_boundaries_windowed are strictly increasing with
\* every index in 1..n-1 for n embeddings, and are empty when n < 2.
C12_BoundaryMonotonicity ==
    /\ (pc \in {"detect", "format", "failed"} /\ adjacent.err = "none") =>
          /\ IncreasingWithin(adjacent.boundaries, Len(embeddings))
          /\ (Len(embeddings) < 2 => adjacent.boundaries = <<>>)
    /\ pc = "format" =>
          /\ IncreasingWithin(boundaries, Len(embeddings))
          /\ (Len(embeddings) < 2 => boundaries = <<>>)

\* both detectors marked every index of the longest sequence explored
C12_Witness ==
    /\ pc = "format"
    /\ Len(embeddings) = MaxSents
    /\ Len(boundaries) = MaxSents - 1
    /\ Len(adjacent.boundaries) = MaxSents - 1

\* boundaries b and similarity series sims are aligned for n embeddings:
\* n - 1 similarities, and index i is a boundary exactly when sims[i-1]
\* (Python's index) is below the threshold
Aligned(b, sims, n, t) ==
    /\ Len(sims) = n - 1
    /\ \A i \in 1..(n - 1) :
          (\E k \in 1..Len(b) : b[k] = i) <=> FLess(sims[i], FloatOf(t.n, t.d))

\* C18: for n >= 2 embeddings both detectors return n-1 similarities and
\* mark index i (1 <= i <= n-1) as a boundary if and only if similarities[i-1]
\* is strictly below the threshold; in the adjacent-pair detector
\* similarities[i-1] is the similarity of embeddings i-1 and i.
C18_BoundariesAligned ==
    /\ (pc \in {"detect", "format", "failed"} /\ adjacent.err = "none"
          /\ Len(embeddings) >= 2) =>
          /\ Aligned(adjacent.boundaries, adjacent.similarities,
                     Len(embeddings), threshold)
          /\ \A i \in 1..(Len(embeddings) - 1) :
                adjacent.similarities[i] =
                    cosine_similarity(embeddings[i], embeddings[i + 1]).val
    /\ (pc = "format" /\ Len(embeddings) >= 2) =>
          Aligned(boundaries, similarities, Len(embeddings), threshold)

\* in both detectors one similarity equals the threshold and marks no
\* boundary while another is below it and marks one
C18_Witness ==
    /\ pc = "format"
    /\ Len(embeddings) = 3
    /\ adjacent.err = "none"
    /\ \E i, j \in 1..2 :
          /\ adjacent.similarities[i] = FloatOf(threshold.n, threshold.d)
          /\ adjacent.boundaries = <<j>>
    /\ \E i, j \in 1..2 :
          /\ similarities[i] = FloatOf(threshold.n, threshold.d)
          /\ boundaries = <<j>>

\* C25: for the same embedding sequence and the same threshold,
\* detect_topic_boundaries_windowed with window size >= 2 never marks more
\* boundaries than detect_topic_boundaries.
C25_WindowingNeverAddsBoundaries ==
    (pc = "format" /\ window_size >= 2 /\ adjacent.err = "none") =>
        Len(boundaries) <= Len(adjacent.boundaries)

\* C26: detect_topic_boundaries_windowed(e, t, 1) returns the same boundary
\* list and the same similarity series as detect_topic_boundaries(e, t), for
\* every embedding sequence and threshold (and raises when it raises).
C26_WindowOneIsAdjacent ==
    (pc \in {"format", "failed"} /\ window_size = 1) =>
        IF adjacent.err = "none"
        THEN /\ pc = "format"
             /\ boundaries = adjacent.boundaries
             /\ similarities = adjacent.similarities
        ELSE pc = "failed" /\ error.type = adjacent.err

\* window size 1 on the longest sequence, with a boundary and a
\* non-boundary
C26_Witness ==
    /\ pc = "format"
    /\ window_size = 1
    /\ Len(embeddings) = MaxSents
    /\ Len(boundaries) = 1
    /\ boundaries = adjacent.boundaries
    /\ Len(similarities) = MaxSents - 1
    /\ similarities = adjacent.similarities

\* two of the embeddings differ in length
MixedLengths(embs) ==
    \E j, k \in 1..Len(embs) : Len(embs[j].v) # Len(embs[k].v)

\* C14: cosine_similarity raises on two vectors of different lengths; when
\* two of the embeddings differ in length, detect_topic_boundaries raises and
\* detect_topic_boundaries_windowed raises (for window sizes 1 and more)
\* instead of returning, and the run then ends with status 1 without
\* boundaries, similarities or output.
C14_DimensionMismatchFatal ==
    /\ \A j, k \in 1..Len(embeddings) :
          Len(embeddings[j].v) # Len(embeddings[k].v) =>
              cosine_similarity(embeddings[j], embeddings[k]).err = "ValueError"
    /\ (pc = "detect" /\ adjacent # None /\ MixedLengths(embeddings)) =>
          adjacent.err # "none"
    /\ (pc \in {"format", "save"} /\ window_size >= 1) => ~MixedLengths(embeddings)
    /\ (pc = "failed" /\ error.at = "detect_topic_boundaries_windowed") =>
          /\ MixedLengths(embeddings)
          /\ exit_status = 1
          /\ boundaries = <<>> /\ similarities = <<>>
          /\ output_data = None

\* the windowed detector failed on a sequence whose odd vector is the last
\* one, which the window average of the first candidate point pads silently
C14_Witness ==
    /\ pc = "failed"
    /\ error.at = "detect_topic_boundaries_windowed"
    /\ Len(embeddings) = 3
    /\ Len(embeddings[1].v) = Len(embeddings[2].v)
    /\ Len(embeddings[3].v) < Len(embeddings[1].v)
    /\ window_size >= 2

-----------------------------------------------------------------------------
(* Paragraph building over every small sentence sequence and boundary list *)

\* the sentence at position i: built from two words, from text only (the
\* fallback), or from five empty words (a blank text)
SentenceAt(kind, i) ==
    IF kind = "words"
    THEN SentenceOfWords(<<WordAt(<<"a">>, 10 * i), WordAt(<<"b", ".">>, 10 * i + 1)>>)
    ELSE IF kind = "text"
    THEN [text |-> <<"t", ".">>, words |-> <<>>, start |-> 10 * i, end |-> 10 * i + 5,
          wordCount |-> 1]
    ELSE SentenceOfWords([k \in 1..DEFAULT_MIN_WORDS |-> WordAt(<<>>, 10 * i + k)])

SentenceKinds == {"words", "text", "blank"}

SentenceSeqs(n) ==
    {[i \in 1..Len(ks) |-> SentenceAt(ks[i], i - 1)] : ks \in SeqsUpTo(SentenceKinds, n)}

\* longer sequences, of sentences with word-level data only
LongSentenceSeqs ==
    {[i \in 1..n |-> SentenceAt("words", i - 1)] : n \in (MaxSents + 1)..MaxLongSents}

SimHalf == FloatOf(1, 2)
SimilarityChoices(n) ==
    {<<>>, [k \in 1..(n - 1) |-> IF k % 2 = 1 THEN SimZero ELSE SimHalf]}

\* main, lines 1255-1261
FormatOutput ==
    /\ pc = "format"
    /\ output_data' = format_transcript_with_sentence_topics(
                          sentences, boundaries, similarities, threshold)
    /\ pc' = "save"
    /\ UNCHANGED <<extractVars, gatewayVars, detectVars, sinkVars, ctlVars>>

InitParagraphs ==
    /\ pc = "format"
    /\ sentences \in SentenceSeqs(MaxSents) \cup LongSentenceSeqs
    /\ boundaries \in SeqsUpTo(0..(MaxSents + 1), MaxBounds)
    /\ similarities \in SimilarityChoices(Len(sentences))
    /\ threshold = TOPIC_THRESHOLD
    /\ window_size = MAIN_WINDOW_SIZE
    /\ embeddings = <<>> /\ adjacent = None
    /\ ExtractIdle /\ GatewayIdle /\ SinkIdle /\ CtlIdle

NextParagraphs == FormatOutput

SpecParagraphs == InitParagraphs /\ [][NextParagraphs]_vars

RECURSIVE SumSentenceCount(_)
SumSentenceCount(paras) ==
    IF Len(paras) = 0 THEN 0 ELSE Head(paras).sentenceCount + SumSentenceCount(Tail(paras))

\* the run of sentences that paragraph k owns, by the sentenceCounts before it
RunOf(paras, sents, k) ==
    LET before == SumSentenceCount(SubSeq(paras, 1, k - 1))
    IN SubSeq(sents, before + 1, before + paras[k].sentenceCount)

\* C1: the paragraphs partition the sentences into contiguous non-empty runs
\* in the original order: the sentenceCounts sum to the number of sentences,
\* each paragraph's text and words are those of its run, and the paragraphs'
\* words and texts concatenated are those of the whole input.
C1_ParagraphCoverage ==
    pc = "save" =>
        LET paras == output_data.paragraphs
        IN /\ SumSentenceCount(paras) = Len(sentences)
           /\ \A k \in 1..Len(paras) :
                /\ paras[k].sentenceCount >= 1
                /\ paras[k].text = AllTextOf(RunOf(paras, sentences, k))
                /\ paras[k].words = AllWordsOf(RunOf(paras, sentences, k))
           /\ Flatten([k \in 1..Len(paras) |-> paras[k].words]) = AllWordsOf(sentences)
           /\ Join([k \in 1..Len(paras) |-> paras[k].text], Space) = AllTextOf(sentences)

C1_Witness ==
    /\ pc = "save"
    /\ Len(sentences) = MaxSents
    /\ Len(output_data.paragraphs) = 2
    /\ 0 \in SeqRange(boundaries)
    /\ output_data.paragraphs[2].sentenceCount = 2

\* Python index of the first sentence of paragraph k
FirstSentenceOf(paras, k) == SumSentenceCount(SubSeq(paras, 1, k - 1))

\* C13: the first paragraph built has isTopicStart true whatever the boundary
\* list holds, and every later paragraph has isTopicStart true exactly when
\* the index of its first sentence is in the boundary list.
C13_TopicStartFlags ==
    pc = "save" =>
        LET paras == output_data.paragraphs
        IN /\ Len(paras) > 0 => paras[1].isTopicStart = TRUE
           /\ \A k \in 2..Len(paras) :
                 paras[k].isTopicStart = (FirstSentenceOf(paras, k) \in SeqRange(boundaries))

\* three paragraphs: one closed first, one closed at a later boundary, and
\* the one flushed after the loop
C13_Witness ==
    /\ pc = "save"
    /\ Len(output_data.paragraphs) = 3
    /\ \A k \in 1..3 : output_data.paragraphs[k].isTopicStart
    /\ FirstSentenceOf(output_data.paragraphs, 3) \in SeqRange(boundaries)

\* main, line 1226: the number of topics that main prints
main_topic_count(bnds) == Len(bnds) + 1

\* Python indices of the sentences at which a paragraph begins
ParagraphStarts(paras) == {FirstSentenceOf(paras, k) : k \in 1..Len(paras)}

\* C22: on n >= 1 sentences a new paragraph starts at sentence i if and only
\* if i >= 1 and i is in the boundary list, so there are 1 + (number of
\* distinct boundaries in 1..n-1) paragraphs; topicCount equals the number
\* of paragraphs, and equals the len(boundaries) + 1 of main for a boundary
\* list as the detectors return it.  No boundary on 5 sentences gives one
\* paragraph; the boundary 3 on 6 sentences gives sentences 0-2 and 3-5.
C22_BreaksFollowBoundaries ==
    (pc = "save" /\ Len(sentences) >= 1) =>
        LET paras == output_data.paragraphs
            n == Len(sentences)
            inner == {b \in SeqRange(boundaries) : 1 <= b /\ b <= n - 1}
        IN /\ ParagraphStarts(paras) = {0} \cup inner
           /\ Len(paras) = 1 + Cardinality(inner)
           /\ output_data.topicStats.topicCount = Len(paras)
           /\ output_data.topicStats.paragraphCount = Len(paras)
           /\ IncreasingWithin(boundaries, n) =>
                 output_data.topicStats.topicCount = main_topic_count(boundaries)
           /\ (n = 5 /\ boundaries = <<>>) =>
                 Len(paras) = 1 /\ paras[1].sentenceCount = 5
           /\ (n = 6 /\ boundaries = <<3>>) =>
                 /\ Len(paras) = 2
                 /\ RunOf(paras, sentences, 1) = SubSeq(sentences, 1, 3)
                 /\ RunOf(paras, sentences, 2) = SubSeq(sentences, 4, 6)

\* six sentences and the single boundary 3: two paragraphs of three
C22_Witness ==
    /\ pc = "save"
    /\ Len(sentences) = 6
    /\ boundaries = <<3>>
    /\ Len(output_data.paragraphs) = 2
    /\ output_data.paragraphs[1].sentenceCount = 3
    /\ output_data.paragraphs[2].sentenceCount = 3
    /\ output_data.topicStats.topicCount = 2

-----------------------------------------------------------------------------
(* A detector followed by the paragraph builder: the boundaries and the
   similarity series of one detector run, of either detector, are handed to
   format_transcript_with_sentence_topics *)

\* the caller takes the result of detect_topic_boundaries
TakeAdjacent ==
    /\ pc = "detect"
    /\ adjacent.err = "none"
    /\ boundaries' = adjacent.boundaries
    /\ similarities' = adjacent.similarities
    /\ pc' = "format"
    /\ UNCHANGED <<threshold, window_size, adjacent, output_data>>
    /\ UNCHANGED <<extractVars, gatewayVars, sinkVars, ctlVars>>

InitSegment ==
    /\ pc = "detect_adjacent"
    /\ embeddings \in SeqsUpTo(EmbeddingChoices, MaxSents)
    /\ sentences = [i \in 1..Len(embeddings) |-> SentenceAt("words", i - 1)]
    /\ threshold \in ThresholdChoices
    /\ window_size \in WindowChoices
    /\ ExtractIdle /\ GatewayIdle /\ DetectIdle /\ SinkIdle /\ CtlIdle

NextSegment == DetectAdjacent \/ TakeAdjacent \/ DetectWindowed \/ FormatOutput

SpecSegment == InitSegment /\ [][NextSegment]_vars

\* C23: when the boundaries and the similarities come from the same detector
\* run with threshold t, every paragraph except the last has topicSimilarity
\* equal to similarities[b-1], b being the boundary index that closed it,
\* and that value is strictly below t; the last paragraph has 1.0.
C23_TriggeringSimilarity ==
    (pc = "save" /\ Len(sentences) >= 1) =>
        LET paras == output_data.paragraphs
        IN /\ \A k \in 1..(Len(paras) - 1) :
                 LET b == FirstSentenceOf(paras, k + 1)
                 IN /\ b \in SeqRange(boundaries)
                    /\ paras[k].topicSimilarity = similarities[b]
                    /\ FLess(paras[k].topicSimilarity, FloatOf(threshold.n, threshold.d))
           /\ paras[Len(paras)].topicSimilarity = SimOne

\* three paragraphs whose two closing similarities differ
C23_Witness ==
    /\ pc = "save"
    /\ Len(output_data.paragraphs) = 3
    /\ boundaries = <<1, 2>>
    /\ similarities[1] # similarities[2]
    /\ output_data.paragraphs[1].topicSimilarity = similarities[1]
    /\ output_data.paragraphs[2].topicSimilarity = similarities[2]
    /\ output_data.paragraphs[3].topicSimilarity = SimOne

-----------------------------------------------------------------------------
(* The embedding gateway (lines 117-342) *)

MAX_CHARS == 32000    \* get_embedding_from_bedrock's max_chars

CharCode(c) ==
    CASE c = "a" -> 1 [] c = "b" -> 2 [] c = "." -> 3 [] c = " " -> 4
      [] c = "t" -> 5 [] c = "!" -> 6 [] c = "?" -> 7 [] OTHER -> 8

RECURSIVE DigestFrom(_, _)
DigestFrom(text, h) ==
    IF Len(text) = 0 THEN h
    ELSE DigestFrom(Tail(text), (h * 31 + CharCode(Head(text))) % 1000003)

\* the sentence get_embeddings_for_segments is working on
CurrentIndex == Len(embeddings)
CurrentText == sentences[CurrentIndex + 1].text

\* a plausible slip: the segment's position goes into the digest
get_segment_key_WithPosition(text) == DigestFrom(text, 7 + CurrentIndex)

\* get_segment_key: a digest of the text alone (MD5 in the code; here a
\* polynomial digest, collision-free on the texts explored)
get_segment_key(text) == DigestFrom(text, 7)

\* text[:max_chars] (lines 238-240)
Truncated(text) == SubSeq(text, 1, Min(Len(text), MAX_CHARS))

\* vectors the provider may answer with (EMBEDDING_DIMS entries each)
ProviderVectors == {UnitVec(1), UnitVec(2)}

\* one external call: the operation, the index of the segment it is for, the
\* key or text sent, the outcome, and the vector received (None if none)
Call(op, i, key, text, result, vec) ==
    [op |-> op, i |-> i, key |-> key, text |-> text, result |-> result, vec |-> vec]

\* a plausible slip: the caller's use_cache is not passed on
use_cache_AlwaysOn(a) == TRUE

\* main, line 1212: use_cache = not args.skip_cache
use_cache(a) == ~a.skip_cache

\* lines 286-293: counters, and the cache client created on first use unless
\* use_cache is false; a client that cannot be created is remembered as False
GatewayStart ==
    /\ pc = "embed_init"
    /\ embeddings' = <<>> /\ cache_hits' = 0 /\ cache_misses' = 0
    /\ embedding' = None
    /\ IF ~use_cache(args)
       THEN /\ cache_available' = FALSE
            /\ UNCHANGED s3vectors_client
       ELSE \E created \in BOOLEAN :
            /\ s3vectors_client' = IF created THEN "client" ELSE "False"
            /\ cache_available' = created
    /\ pc' = "embed_next"
    /\ UNCHANGED <<cache, calls>>
    /\ UNCHANGED <<extractVars, detectVars, output_data, sinkVars, ctlVars>>

\* lines 297-299: a blank segment gets the zero vector
EmbedBlank ==
    /\ pc = "embed_next"
    /\ CurrentIndex < Len(sentences)
    /\ IsBlank(CurrentText)
    /\ embeddings' = Append(embeddings, ZeroVector)
    /\ UNCHANGED <<pc, embedding, cache_available, cache_hits, cache_misses,
                   s3vectors_client, cache, calls>>
    /\ UNCHANGED <<extractVars, detectVars, output_data, sinkVars, ctlVars>>

\* lines 301-305: a non-blank segment goes to the cache when it is available
EmbedBegin ==
    /\ pc = "embed_next"
    /\ CurrentIndex < Len(sentences)
    /\ ~IsBlank(CurrentText)
    /\ embedding' = None
    /\ pc' = IF cache_available THEN "lookup" ELSE "provider"
    /\ UNCHANGED <<embeddings, cache_available, cache_hits, cache_misses,
                   s3vectors_client, cache, calls>>
    /\ UNCHANGED <<extractVars, detectVars, output_data, sinkVars, ctlVars>>

\* a plausible slip: only ClientError is caught, another exception escapes
get_cached_embedding_Uncaught(outcome, key) ==
    IF outcome = "found" THEN Ok(cache[key])
    ELSE IF outcome = "Exception" THEN Raised("Exception")
    ELSE Ok(None)

\* what get_cached_embedding returns for an outcome of get_vectors
\* (lines 165-182): the stored data, or None on a miss and on any exception
get_cached_embedding(outcome, key) ==
    IF outcome = "found" THEN Ok(cache[key]) ELSE Ok(None)

\* `if embedding:` (line 307): a non-empty list
Truthy(e) == e # None /\ Len(e.v) > 0

\* lines 305-308: get_cached_embedding and the hit counter
CacheLookup ==
    /\ pc = "lookup"
    /\ \E outcome \in {"found", "miss", "ClientError", "Exception"} :
        /\ outcome = "found" => get_segment_key(CurrentText) \in DOMAIN cache
        /\ outcome = "miss" => get_segment_key(CurrentText) \notin DOMAIN cache
        /\ LET r == get_cached_embedding(outcome, get_segment_key(CurrentText))
           IN /\ calls' = Append(calls, Call("get_vectors", CurrentIndex,
                                  get_segment_key(CurrentText), CurrentText, outcome,
                                  IF r.err = "none" THEN r.val ELSE None))
              /\ IF r.err = "none"
                 THEN /\ embedding' = r.val
                      /\ cache_hits' = IF Truthy(r.val) THEN cache_hits + 1 ELSE cache_hits
                      /\ pc' = IF r.val = None THEN "provider" ELSE "append"
                      /\ UNCHANGED <<error, exit_status>>
                 ELSE /\ error' = Err(r.err, "get_vectors")
                      /\ exit_status' = 1
                      /\ pc' = "failed"
                      /\ UNCHANGED <<embedding, cache_hits>>
    /\ UNCHANGED <<embeddings, cache_available, cache_misses, s3vectors_client, cache>>
    /\ UNCHANGED <<extractVars, detectVars, output_data, sinkVars, args, run>>

\* a plausible slip: a failed provider call is swallowed and the segment
\* gets the zero vector
AfterProviderError_Swallowed(raised) ==
    [pc |-> IF cache_available THEN "store" ELSE "append",
     exit_status |-> "running", error |-> NoError, embedding |-> ZeroVector]

\* lines 257-263 and 1214-1216: get_embedding_from_bedrock re-raises; main
\* catches a ClientError and exits with status 1, any other exception ends
\* the run with a traceback and status 1
AfterProviderError(raised) ==
    [pc |-> "failed", exit_status |-> 1, error |-> Err(raised, "invoke_model"),
     embedding |-> embedding]

\* lines 311-313: the provider call
ProviderCall ==
    /\ pc = "provider"
    /\ cache_misses' = cache_misses + 1
    /\ \/ \E vec \in ProviderVectors :
            /\ embedding' = vec
            /\ calls' = Append(calls, Call("invoke_model", CurrentIndex,
                                   get_segment_key(CurrentText), Truncated(CurrentText),
                                   "ok", vec))
            /\ pc' = IF cache_available THEN "store" ELSE "append"
            /\ UNCHANGED <<error, exit_status>>
       \/ \E raised \in {"ClientError", "Exception"} :
            /\ calls' = Append(calls, Call("invoke_model", CurrentIndex,
                                   get_segment_key(CurrentText), Truncated(CurrentText),
                                   raised, None))
            /\ error' = AfterProviderError(raised).error
            /\ exit_status' = AfterProviderError(raised).exit_status
            /\ pc' = AfterProviderError(raised).pc
            /\ embedding' = AfterProviderError(raised).embedding
    /\ UNCHANGED <<embeddings, cache_available, cache_hits, s3vectors_client, cache>>
    /\ UNCHANGED <<extractVars, detectVars, output_data, sinkVars, args, run>>

\* lines 316-326: store_embedding_in_cache; a failure is only printed
CacheStore ==
    /\ pc = "store"
    /\ \E stored \in BOOLEAN :
        /\ cache' = IF stored
                    THEN [k \in DOMAIN cache \cup {get_segment_key(CurrentText)} |->
                             IF k = get_segment_key(CurrentText) THEN embedding ELSE cache[k]]
                    ELSE cache
        /\ calls' = Append(calls, Call("put_vectors", CurrentIndex,
                               get_segment_key(CurrentText), CurrentText,
                               IF stored THEN "ok" ELSE "Exception", None))
    /\ pc' = "append"
    /\ UNCHANGED <<embeddings, embedding, cache_available, cache_hits, cache_misses,
                   s3vectors_client>>
    /\ UNCHANGED <<extractVars, detectVars, output_data, sinkVars, ctlVars>>

\* line 328
EmbedAppend ==
    /\ pc = "append"
    /\ embeddings' = Append(embeddings, embedding)
    /\ pc' = "embed_next"
    /\ UNCHANGED <<embedding, cache_available, cache_hits, cache_misses,
                   s3vectors_client, cache, calls>>
    /\ UNCHANGED <<extractVars, detectVars, output_data, sinkVars, ctlVars>>

\* a plausible slip: the loop over the segments stops one segment early
LoopFinished_OneEarly(embs, segments) == Len(embs) + 1 >= Len(segments)

\* line 295: the loop over the segments has gone through all of them
LoopFinished(embs, segments) == Len(embs) = Len(segments)

\* line 342: the list is returned once every segment has its embedding
EmbedReturn ==
    /\ pc = "embed_next"
    /\ LoopFinished(embeddings, sentences)
    /\ pc' = "detect"
    /\ UNCHANGED <<extractVars, gatewayVars, detectVars, output_data, sinkVars, ctlVars>>

-----------------------------------------------------------------------------
(* main (lines 1028-1297) *)

\* a stored object or file written by run r
Written(r, data) == [exists |-> TRUE, run |-> r, data |-> data, complete |-> TRUE]
\* a local file left open and incompletely written by run r
Partial(r) == [exists |-> TRUE, run |-> r, data |-> None, complete |-> FALSE]

Terminated == pc \in {"done", "noop", "skipped", "failed"}

\* lines 1139-1149: the skip check of a --session run.  head_object answers
\* for transcription-topic-segmented.json; any ClientError, whatever its
\* cause, is taken as "does not exist".
SkipCheck ==
    /\ pc = "start"
    /\ IF args.session /\ ~args.force /\ ~args.dry_run
       THEN \E answer \in {"exists", "ClientError"} :
            /\ answer = "exists" => s3.legacy.exists
            /\ IF answer = "exists"
               THEN pc' = "skipped" /\ exit_status' = 0
               ELSE pc' = "load" /\ UNCHANGED exit_status
       ELSE pc' = "load" /\ UNCHANGED exit_status
    /\ UNCHANGED <<args, error, run>>
    /\ UNCHANGED <<extractVars, gatewayVars, detectVars, output_data, sinkVars>>

\* lines 1151-1176: the transcript is read from the bucket or the local file;
\* a missing input ends the run with status 1
LoadTranscript ==
    /\ pc = "load"
    /\ IF source.exists
       THEN /\ processed_data' = source.data
            /\ pc' = "extract"
            /\ UNCHANGED <<error, exit_status>>
       ELSE /\ error' = Err("FileNotFoundError", "load")
            /\ exit_status' = 1
            /\ pc' = "failed"
            /\ UNCHANGED processed_data
    /\ UNCHANGED <<all_words, pause_threshold, min_words, grouped, sentences>>
    /\ UNCHANGED <<gatewayVars, detectVars, output_data, sinkVars, args, run>>

\* a plausible slip: only an empty sentence list is taken as too few
TooFewSentences_OnlyEmpty(sents) == Len(sents) < 1

\* line 1191
TooFewSentences(sents) == Len(sents) < 2

\* lines 1191-1195: fewer than 2 sentences is a successful no-op
CheckEnough ==
    /\ pc = "extracted"
    /\ IF TooFewSentences(sentences)
       THEN pc' = "noop" /\ exit_status' = 0
       ELSE pc' = "embed_init" /\ UNCHANGED exit_status
    /\ UNCHANGED <<args, error, run>>
    /\ UNCHANGED <<extractVars, gatewayVars, detectVars, output_data, sinkVars>>

\* a plausible slip: the save step does not look at --dry-run
dry_run_Ignored(a) == FALSE

\* line 1264: if args.dry_run
dry_run(a) == a.dry_run

\* lines 1264-1271: --dry-run saves nothing
SaveDryRun ==
    /\ pc = "save"
    /\ dry_run(args)
    /\ pc' = "done" /\ exit_status' = 0
    /\ UNCHANGED <<args, error, run>>
    /\ UNCHANGED <<extractVars, gatewayVars, detectVars, output_data, sinkVars>>

\* upload_to_s3, lines 1000-1008: the layer-3 object is put first; a failed
\* put raises and ends the run with status 1
UploadLayer ==
    /\ pc = "save"
    /\ ~dry_run(args) /\ args.session
    /\ \/ /\ s3' = [s3 EXCEPT !.layer3 = Written(run, output_data)]
          /\ pc' = "upload_legacy"
          /\ UNCHANGED <<error, exit_status>>
       \/ /\ error' = Err("ClientError", "put_object") /\ exit_status' = 1
          /\ pc' = "failed"
          /\ UNCHANGED s3
    /\ UNCHANGED <<local_file, source, args, run>>
    /\ UNCHANGED <<extractVars, gatewayVars, detectVars, output_data>>

\* upload_to_s3, lines 1011-1019: then transcription-topic-segmented.json
UploadLegacy ==
    /\ pc = "upload_legacy"
    /\ \/ /\ s3' = [s3 EXCEPT !.legacy = Written(run, output_data)]
          /\ pc' = "done" /\ exit_status' = 0
          /\ UNCHANGED error
       \/ /\ error' = Err("ClientError", "put_object") /\ exit_status' = 1
          /\ pc' = "failed"
          /\ UNCHANGED s3
    /\ UNCHANGED <<local_file, source, args, run>>
    /\ UNCHANGED <<extractVars, gatewayVars, detectVars, output_data>>

\* lines 1278-1288: open(path, 'w') and json.dump.  The open may fail and
\* leave the file as it was; once opened the file is truncated, and a dump
\* that fails leaves it incomplete.
WriteLocal ==
    /\ pc = "save"
    /\ ~dry_run(args) /\ ~args.session
    /\ \/ /\ local_file' = Written(run, output_data)
          /\ pc' = "done" /\ exit_status' = 0
          /\ UNCHANGED error
       \/ /\ error' = Err("OSError", "write") /\ exit_status' = 1 /\ pc' = "failed"
          /\ local_file' \in {local_file, Partial(run)}
    /\ UNCHANGED <<s3, source, args, run>>
    /\ UNCHANGED <<extractVars, gatewayVars, detectVars, output_data>>

\* the command lines: --session or a local input with or without an output
\* path; --force is only read by the skip check of a --session run
ArgChoices ==
    {a \in [session : BOOLEAN, output_path : BOOLEAN, dry_run : BOOLEAN,
            skip_cache : BOOLEAN, force : BOOLEAN] :
        /\ a.session => ~a.output_path
        /\ a.force => a.session}

\* the script is started again, on the same input and stores; the process
\* starts with fresh globals
StartRun ==
    /\ Terminated
    /\ run < MaxRuns
    /\ run' = run + 1
    /\ args' \in {a \in ArgChoices : a.session = args.session
                                    /\ a.output_path = args.output_path}
    /\ pc' = "start" /\ exit_status' = "running" /\ error' = NoError
    /\ processed_data' = <<>> /\ all_words' = <<>> /\ grouped' = <<>> /\ sentences' = <<>>
    /\ embeddings' = <<>> /\ embedding' = None /\ cache_available' = FALSE
    /\ cache_hits' = 0 /\ cache_misses' = 0
    /\ s3vectors_client' = "None" /\ calls' = <<>>
    /\ boundaries' = <<>> /\ similarities' = <<>>
    /\ output_data' = None
    /\ UNCHANGED <<pause_threshold, min_words, cache, threshold, window_size, adjacent,
                   sinkVars>>

(* The inputs of main *)

WordsOfKind(kind, n, start) ==
    [k \in 1..n |-> WordAt(IF kind = "blank" THEN <<>>
                            ELSE IF k = n THEN <<kind, ".">> ELSE <<kind>>,
                           start + k - 1)]

\* a word stream made of sentences: each shape entry gives the letter of the
\* words (or "blank" for empty words) and the number of words
RECURSIVE StreamOfShape(_, _)
StreamOfShape(shape, start) ==
    IF Len(shape) = 0 THEN <<>>
    ELSE WordsOfKind(Head(shape)[1], Head(shape)[2], start)
         \o StreamOfShape(Tail(shape),
                start + Head(shape)[2] + DEFAULT_PAUSE_THRESHOLD + 1)

Sentence5(letter) ==
    <<letter, " ", letter, " ", letter, " ", letter, " ", letter, ".">>

MainTranscripts ==
    { <<>>,
      <<ParagraphOfText(<<>>, 0)>>,
      TranscriptOfWords(StreamOfShape(<<<<"a", 5>>>>, 0)),
      TranscriptOfWords(StreamOfShape(<<<<"a", 5>>, <<"b", 5>>>>, 0)),
      TranscriptOfWords(StreamOfShape(<<<<"a", 5>>, <<"b", 2>>, <<"a", 5>>>>, 0)),
      TranscriptOfWords(StreamOfShape(<<<<"a", 5>>, <<"blank", 5>>, <<"a", 5>>>>, 0)),
      <<ParagraphOfText(Sentence5("a") \o Space \o Sentence5("b"), 0)>> }

SourceChoices == {NoObject} \cup {Written(0, t) : t \in MainTranscripts}

\* records left in the S3 Vectors index by another writer: none, or one with
\* empty vector data and one of another dimensionality
CacheChoices ==
    { <<>>,
      [k \in {get_segment_key(Sentence5("a")), get_segment_key(Sentence5("b"))} |->
          IF k = get_segment_key(Sentence5("a")) THEN EmptyVector ELSE LongVec] }

Init ==
    /\ pc = "start"
    /\ run = 1
    /\ args \in ArgChoices
    /\ exit_status = "running" /\ error = NoError
    /\ source \in SourceChoices
    /\ processed_data = <<>> /\ all_words = <<>> /\ grouped = <<>> /\ sentences = <<>>
    /\ pause_threshold = DEFAULT_PAUSE_THRESHOLD
    /\ min_words = DEFAULT_MIN_WORDS
    /\ embeddings = <<>> /\ embedding = None /\ cache_available = FALSE
    /\ cache_hits = 0 /\ cache_misses = 0
    /\ s3vectors_client = "None"
    /\ cache \in CacheChoices
    /\ calls = <<>>
    /\ threshold = TOPIC_THRESHOLD
    /\ window_size = MAIN_WINDOW_SIZE
    /\ boundaries = <<>> /\ similarities = <<>> /\ adjacent = None
    /\ output_data = None
    /\ s3 = [layer3 |-> NoObject, legacy |-> NoObject]
    /\ local_file = NoObject

Next ==
    \/ SkipCheck \/ LoadTranscript
    \/ ExtractWords \/ GroupWords \/ FallbackSplit \/ MergeShort
    \/ CheckEnough
    \/ GatewayStart \/ EmbedBlank \/ EmbedBegin \/ CacheLookup \/ ProviderCall
    \/ CacheStore \/ EmbedAppend \/ EmbedReturn
    \/ DetectWindowed \/ FormatOutput
    \/ SaveDryRun \/ UploadLayer \/ UploadLegacy \/ WriteLocal
    \/ StartRun

\* runs of the script, one after another, over the same stores
Spec == Init /\ [][Next]_vars


-----------------------------------------------------------------------------
(* Properties of a run of main *)

\* obj holds something written by run r
HoldsOutputOf(obj, r) == obj.exists /\ obj.run = r

\* no sink holds anything written by the current run
NothingWritten ==
    /\ ~HoldsOutputOf(s3.layer3, run)
    /\ ~HoldsOutputOf(s3.legacy, run)
    /\ ~HoldsOutputOf(local_file, run)

\* the external calls made for segment i, in the order they were made
RECURSIVE CallsFor(_, _)
CallsFor(log, i) ==
    IF Len(log) = 0 THEN <<>>
    ELSE IF Head(log).i = i THEN <<Head(log)>> \o CallsFor(Tail(log), i)
    ELSE CallsFor(Tail(log), i)

OpsOf(cs) == [k \in 1..Len(cs) |-> cs[k].op]

\* the transcript has neither word-level data nor paragraph text
NoWordsNoText(data) ==
    \A k \in 1..Len(data) : Len(data[k].words) = 0 /\ Len(data[k].text) = 0

\* the steps of main that follow the check of the number of sentences
PastCheck ==
    {"embed_init", "embed_next", "lookup", "provider", "store", "append",
     "detect", "format", "save", "upload_legacy", "done"}

\* C7: when extraction and merging leave fewer than 2 sentences the run ends
\* as a successful no-op: exit status 0, no cache client, no cache or provider
\* call, no embeddings, no boundaries, no rebuilt paragraphs and nothing
\* written; a run goes past the check only with at least 2 sentences; and a
\* transcript with neither words nor text gives the empty sentence sequence.
C7_TooFewIsNoOp ==
    /\ pc = "noop" =>
          /\ Len(sentences) < 2
          /\ exit_status = 0 /\ error = NoError
          /\ calls = <<>> /\ s3vectors_client = "None"
          /\ embeddings = <<>> /\ boundaries = <<>> /\ similarities = <<>>
          /\ output_data = None
          /\ NothingWritten
    /\ (pc \in PastCheck \/ Len(calls) > 0) => Len(sentences) >= 2
    /\ (pc \in {"extracted", "noop"} /\ NoWordsNoText(processed_data)) =>
          sentences = <<>>

\* a run that ended as a no-op on a transcript of one sentence, with records
\* waiting in the cache
C7_Witness ==
    /\ pc = "noop" /\ exit_status = 0
    /\ Len(sentences) = 1
    /\ DOMAIN cache # {}

FailedProviderCalls ==
    {j \in 1..Len(calls) : calls[j].op = "invoke_model" /\ calls[j].result # "ok"}

\* C2: a failed provider call is the last external call of the run; the run
\* is aborted with exit status 1, the failing segment and the later ones get
\* no embedding, no boundaries are detected, no paragraphs are built and no
\* sink is written by the run.
C2_ProviderFailureAborts ==
    \A j \in FailedProviderCalls :
        /\ j = Len(calls)
        /\ pc = "failed" /\ exit_status = 1
        /\ error.at = "invoke_model"
        /\ Len(embeddings) = calls[j].i
        /\ boundaries = <<>> /\ similarities = <<>>
        /\ output_data = None
        /\ NothingWritten

\* the provider failed on a segment after the first one
C2_Witness ==
    /\ pc = "failed"
    /\ \E j \in FailedProviderCalls : calls[j].i >= 1 /\ Len(embeddings) >= 1

\* C3: a run that stopped with an error has written nothing to the layer-3
\* object, the legacy object or the local output file.
C3_FailedRunLeavesNothing ==
    pc = "failed" => NothingWritten

\* C4: cache failures are not fatal.  A run never fails on a cache call; a
\* client that cannot be created only switches the cache off; a lookup that
\* missed or raised is followed by the provider call for the same segment; a
\* store attempt, failed or not, leaves the provider's vector as the segment's
\* embedding; and the returned list has an embedding for every sentence.
C4_CacheFailuresNotFatal ==
    /\ pc = "failed" => error.at \notin {"get_vectors", "put_vectors"}
    /\ s3vectors_client = "False" =>
          /\ ~cache_available
          /\ \A j \in 1..Len(calls) : calls[j].op = "invoke_model"
    /\ \A j \in 1..Len(calls) :
          (calls[j].op = "get_vectors" /\ calls[j].result # "found") =>
              IF j = Len(calls)
              THEN pc = "provider" /\ exit_status = "running" /\ embedding = None
              ELSE calls[j + 1].op = "invoke_model" /\ calls[j + 1].i = calls[j].i
    /\ \A j \in 1..Len(calls) :
          calls[j].op = "put_vectors" =>
              /\ j > 1
              /\ calls[j - 1].op = "invoke_model" /\ calls[j - 1].result = "ok"
              /\ calls[j - 1].i = calls[j].i
              /\ IF Len(embeddings) > calls[j].i
                 THEN embeddings[calls[j].i + 1] = calls[j - 1].vec
                 ELSE pc = "append" /\ embedding = calls[j - 1].vec
    /\ pc = "detect" =>
          /\ Len(embeddings) = Len(sentences)
          /\ \A k \in 1..Len(embeddings) : embeddings[k] # None

\* every embedding was returned although a lookup raised and a store failed
C4_Witness ==
    /\ pc = "detect"
    /\ Len(embeddings) = Len(sentences)
    /\ \E j \in 1..Len(calls) :
          calls[j].op = "get_vectors" /\ calls[j].result \in {"ClientError", "Exception"}
    /\ \E j \in 1..Len(calls) :
          calls[j].op = "put_vectors" /\ calls[j].result = "Exception"

\* the calls and the embedding of a resolved non-blank segment
ResolvedByHit(cs, text, e) ==
    /\ cache_available
    /\ OpsOf(cs) = <<"get_vectors">>
    /\ cs[1].result = "found" /\ cs[1].key = get_segment_key(text)
    /\ e = cs[1].vec

ResolvedByMissWithCache(cs, text, e) ==
    /\ cache_available
    /\ OpsOf(cs) = <<"get_vectors", "invoke_model", "put_vectors">>
    /\ cs[1].result # "found" /\ cs[1].key = get_segment_key(text)
    /\ cs[2].result = "ok" /\ cs[2].text = Truncated(text)
    /\ cs[3].key = get_segment_key(text)
    /\ e = cs[2].vec

ResolvedWithoutCache(cs, text, e) ==
    /\ ~cache_available
    /\ OpsOf(cs) = <<"invoke_model">>
    /\ cs[1].result = "ok" /\ cs[1].text = Truncated(text)
    /\ e = cs[1].vec

\* C5: for every resolved segment: a blank text has the zero vector of
\* EMBEDDING_DIMS entries and no call at all; a non-blank text was resolved
\* either by one lookup that found the vector (no provider call, no store), or
\* by a lookup that did not, one provider call and one store under the text's
\* key, or, without the cache, by one provider call alone.  A run started
\* with --skip-cache makes no cache call and creates no cache client.
C5_ResolutionProtocol ==
    /\ \A i \in 0..(Len(embeddings) - 1) :
          LET text == sentences[i + 1].text
              cs == CallsFor(calls, i)
              e == embeddings[i + 1]
          IN IF IsBlank(text)
             THEN /\ cs = <<>>
                  /\ Len(e.v) = EMBEDDING_DIMS
                  /\ \A k \in 1..Len(e.v) : e.v[k] = 0
             ELSE \/ ResolvedByHit(cs, text, e)
                  \/ ResolvedByMissWithCache(cs, text, e)
                  \/ ResolvedWithoutCache(cs, text, e)
    /\ args.skip_cache =>
          /\ ~cache_available /\ s3vectors_client = "None"
          /\ \A j \in 1..Len(calls) : calls[j].op = "invoke_model"

\* one run resolved a blank segment, a miss that was stored and a hit
C5_Witness ==
    /\ pc = "detect"
    /\ \E i \in 0..(Len(embeddings) - 1) : IsBlank(sentences[i + 1].text)
    /\ \E i \in 0..(Len(embeddings) - 1) :
          ResolvedByHit(CallsFor(calls, i), sentences[i + 1].text, embeddings[i + 1])
    /\ \E i \in 0..(Len(embeddings) - 1) :
          ResolvedByMissWithCache(CallsFor(calls, i), sentences[i + 1].text,
                                  embeddings[i + 1])

\* the vector of the last successful store of `text` before call k
RECURSIVE LastStored(_, _)
LastStored(text, k) ==
    IF k <= 1 THEN None
    ELSE IF /\ calls[k - 1].op = "put_vectors" /\ calls[k - 1].result = "ok"
            /\ calls[k - 1].text = text
         THEN calls[k - 2].vec
         ELSE LastStored(text, k - 1)

\* within a run: cache calls for the same text use the same key, and a lookup
\* made after a successful store of the same text is never a miss; when it
\* answers, the stored vector is returned and the provider is not called for
\* that segment
C15_WithinRun ==
    /\ \A j, k \in 1..Len(calls) :
          (/\ calls[j].op \in {"get_vectors", "put_vectors"}
           /\ calls[k].op \in {"get_vectors", "put_vectors"}
           /\ calls[j].text = calls[k].text) => calls[j].key = calls[k].key
    /\ \A k \in 1..Len(calls) :
          (calls[k].op = "get_vectors" /\ LastStored(calls[k].text, k) # None) =>
              /\ calls[k].result # "miss"
              /\ calls[k].result = "found" =>
                    /\ calls[k].vec = LastStored(calls[k].text, k)
                    /\ \A l \in 1..Len(calls) :
                          calls[l].op = "invoke_model" => calls[l].i # calls[k].i

\* across runs: a record stays in the index under its key, and a lookup of a
\* text whose key is in the index, when the index answers, resolves the
\* segment with the record's vector and without a provider call
C15_Step ==
    /\ \A k \in DOMAIN cache :
          /\ k \in DOMAIN cache'
          /\ cache'[k] # cache[k] => (pc = "store" /\ k = get_segment_key(CurrentText))
    /\ (pc = "lookup" /\ get_segment_key(CurrentText) \in DOMAIN cache
          /\ calls'[Len(calls')].result \notin {"ClientError", "Exception"}) =>
              /\ pc' = "append"
              /\ embedding' = cache[get_segment_key(CurrentText)]
              /\ cache_misses' = cache_misses
    /\ (pc = "append" /\ pc' = "embed_next") => embeddings' = Append(embeddings, embedding)

\* C15: cache entries are keyed by the sentence text alone, so once a vector
\* has been stored for a text, a later sentence with the same text, in the
\* same run or in a later one, is resolved from the cache without a provider
\* call whenever the cache is in use and answers.
C15_KeyedByText == []C15_WithinRun /\ [][C15_Step]_vars

\* a later run found, before any store of its own, a vector that only an
\* earlier run can have stored
C15_Witness ==
    /\ run = 2
    /\ \E k \in 1..Len(calls) :
          /\ calls[k].op = "get_vectors" /\ calls[k].result = "found"
          /\ calls[k].vec \in ProviderVectors
          /\ \A j \in 1..k : calls[j].op # "put_vectors"

\* C16: a run started with --dry-run writes nothing, from a session or from a
\* local file and whether or not output exists already: it is never skipped,
\* never enters the upload, leaves no object or file written by it, and when
\* it completes it has extracted the sentences, embedded each of them and
\* computed the similarities and the output.
C16_DryRunWritesNothing ==
    args.dry_run =>
        /\ NothingWritten
        /\ pc \notin {"skipped", "upload_legacy"}
        /\ pc = "done" =>
              /\ exit_status = 0
              /\ Len(sentences) >= 2
              /\ Len(embeddings) = Len(sentences)
              /\ Len(similarities) = Len(sentences) - 1
              /\ output_data # None

\* a --dry-run of a session whose output objects exist from an earlier run
C16_Witness ==
    /\ args.dry_run /\ args.session /\ ~args.force
    /\ pc = "done"
    /\ s3.legacy.exists /\ s3.layer3.exists
    /\ Len(calls) > 0

\* 1-based positions of the sentences whose text is not blank
NonBlankSentences == {i \in 1..Len(sentences) : ~IsBlank(sentences[i].text)}

\* C28: after get_embeddings_for_segments returns, cache_hits + cache_misses
\* equals the number of non-blank sentences and the embedding returned for
\* a non-blank sentence is a non-empty vector, also when a cache lookup
\* returns a record whose vector data is empty.
C28_EveryNonBlankCounted ==
    pc = "detect" =>
        /\ cache_hits + cache_misses = Cardinality(NonBlankSentences)
        /\ \A i \in NonBlankSentences : Len(embeddings[i].v) > 0


\* the steps of get_embeddings_for_segments
EmbedSteps == {"embed_next", "lookup", "provider", "store", "append"}

\* the steps of main once get_embeddings_for_segments has returned
AfterEmbedding == {"detect", "format", "save", "upload_legacy", "done"}

\* the vector the external calls for the segment at index i resolved to:
\* the last one received from the cache or the provider
RECURSIVE LastVector(_)
LastVector(cs) ==
    IF Len(cs) = 0 THEN None
    ELSE IF cs[Len(cs)].op \in {"get_vectors", "invoke_model"} /\ cs[Len(cs)].vec # None
         THEN cs[Len(cs)].vec
         ELSE LastVector(SubSeq(cs, 1, Len(cs) - 1))

\* what holds of every state of a sequential run
SequentialState ==
    /\ calls # <<>> => pc \in EmbedSteps \cup AfterEmbedding \cup {"failed"}
    /\ Len(embeddings) > 0 => pc \in EmbedSteps \cup AfterEmbedding \cup {"failed"}
    /\ \A k \in 1..Len(calls) :
          /\ calls[k].i < Len(sentences)
          /\ calls[k].i <= Len(embeddings)
          /\ calls[k].key = get_segment_key(sentences[calls[k].i + 1].text)
          /\ k > 1 => calls[k - 1].i <= calls[k].i
    /\ Len(embeddings) <= Len(sentences)
    /\ \A i \in 1..Len(embeddings) :
          embeddings[i] = IF IsBlank(sentences[i].text) THEN ZeroVector
                          ELSE LastVector(CallsFor(calls, i - 1))
    /\ pc \in AfterEmbedding => Len(embeddings) = Len(sentences)
    /\ pc \in {"embed_init"} \cup EmbedSteps \cup {"detect"} =>
          boundaries = <<>> /\ similarities = <<>>
    /\ pc \in {"embed_init"} \cup EmbedSteps \cup {"detect", "format"} =>
          output_data = None
    /\ output_data # None => pc \in {"save", "upload_legacy", "done", "failed"}

\* what holds of every step of a sequential run
SequentialStep ==
    /\ (calls' # calls /\ pc' # "start") =>
          /\ pc \in {"lookup", "provider", "store"}
          /\ Len(calls') = Len(calls) + 1
          /\ SubSeq(calls', 1, Len(calls)) = calls
          /\ calls'[Len(calls')].i = Len(embeddings)
          /\ sentences' = sentences /\ embeddings' = embeddings
    /\ (embeddings' # embeddings /\ pc' # "start") =>
          /\ pc \in {"embed_next", "append"}
          /\ Len(embeddings') = Len(embeddings) + 1
          /\ SubSeq(embeddings', 1, Len(embeddings)) = embeddings
          /\ sentences' = sentences /\ calls' = calls
    /\ (sentences' # sentences /\ pc' # "start") =>
          pc \in {"extract", "group", "fallback", "merge"}
    /\ (<<boundaries, similarities>>' # <<boundaries, similarities>> /\ pc' # "start") =>
          /\ pc = "detect"
          /\ Len(embeddings) = Len(sentences)
          /\ embeddings' = embeddings /\ sentences' = sentences /\ calls' = calls
    /\ (output_data' # output_data /\ pc' # "start") =>
          /\ pc = "format"
          /\ <<boundaries, similarities>>' = <<boundaries, similarities>>
          /\ embeddings' = embeddings /\ sentences' = sentences /\ calls' = calls

\* C24: the pipeline is strictly sequential.  A cache or provider call is
\* made only inside get_embeddings_for_segments, after extraction and merging
\* have produced the sentence list, which no later step changes; every call
\* is for the first sentence that has no embedding yet, so the calls follow
\* the input order and no call for a sentence is made before the embedding of
\* the one before it is appended; the list of embeddings grows by one at a
\* time, is never longer than the sentence list, holds at position i the
\* vector resolved for sentence i, and has the length of the sentence list
\* when it is returned; boundaries and similarities are set only at the
\* detection step, with every embedding present; and the output is built
\* only at the step after detection, from boundaries that no longer change.
C24_StrictlySequential == [](SequentialState) /\ [][SequentialStep]_vars

\* a run ended after cache and provider calls for two or more sentences, with
\* one embedding per sentence and the output built
C24_Witness ==
    /\ pc = "done"
    /\ Len(sentences) >= 2 /\ Len(embeddings) = Len(sentences)
    /\ \E j, k \in 1..Len(calls) :
          /\ calls[j].op = "get_vectors" /\ calls[k].op = "invoke_model"
          /\ calls[j].i < calls[k].i
    /\ output_data # None


\* a --session run without --force and without --dry-run that finds
\* transcription-topic-segmented.json in place ends at once with status 0
\* and has touched nothing; with --force the skip check is passed over
RerunStep ==
    /\ (pc = "start" /\ args.session /\ ~args.force /\ ~args.dry_run
           /\ s3.legacy.exists) =>
          /\ pc' = "skipped" /\ exit_status' = 0
          /\ processed_data' = <<>> /\ calls' = <<>>
          /\ s3' = s3 /\ local_file' = local_file /\ cache' = cache
    /\ (pc = "start" /\ args.session /\ args.force) => pc' = "load"

\* a --force run that ends with status 0 after the save step has put its own
\* output in place of the one that was there
ForceOverwrites ==
    (pc = "done" /\ args.session /\ args.force /\ ~args.dry_run) =>
        s3.legacy = Written(run, output_data)

\* C29: re-running is a no-op once the output exists.  For a session whose
\* transcription-topic-segmented.json exists, a run without --force and
\* without --dry-run exits with status 0 before the transcript is downloaded,
\* before any cache or provider call and before any write, so the stored
\* output stays as it was; with --force the run proceeds and overwrites it.
C29_RerunIsNoOp == [][RerunStep]_vars /\ [](ForceOverwrites)


\* C30: the skip marker is written last.  upload_to_s3 puts the layer-3
\* object before transcription-topic-segmented.json, the object the skip
\* check reads; so in every state, a run stopped between the two puts
\* included, the legacy object written by a run is there only if the layer-3
\* object of that run is there with the same content, and no run is skipped
\* while the layer-3 output is missing.
C30_SkipMarkerLast ==
    /\ s3.legacy.exists =>
          /\ HoldsOutputOf(s3.layer3, s3.legacy.run)
          /\ s3.layer3.data = s3.legacy.data
    /\ pc = "skipped" => s3.layer3.exists

====
